---- MODULE Spec2Model ----
(***************************************************************************)
(* Template AST rendering and data binding of the resume builder:          *)
(*   front/src/components/ASTRenderer.tsx  (interactive surface)           *)
(*   front/src/pages/Editor.tsx            (HTML export surface)           *)
(*                                                                         *)
(* JavaScript strings are sequences of one-character strings, so that      *)
(* splitting, regular-expression replacement, parseInt and toLowerCase are *)
(* computed character by character as the code computes them.              *)
(* JavaScript values are tagged records:                                   *)
(*   [t |-> "undefined"], [t |-> "null"], [t |-> "string", v |-> chars],   *)
(*   [t |-> "number", v |-> n], [t |-> "boolean", v |-> b],                *)
(*   [t |-> "array", v |-> <<values>>],                                    *)
(*   [t |-> "object", v |-> <<[k |-> chars, v |-> value], ...>>]           *)
(* Object properties are the object's own keys (Object.prototype members   *)
(* are outside the key alphabet of the model); arrays also answer "length".*)
(***************************************************************************)
EXTENDS Integers, Sequences, FiniteSets

VARIABLES call, ret

vars == <<call, ret>>

(***************************************************************************)
(* Bounds of the model.                                                    *)
(***************************************************************************)
\* Longest path, in segments, handed to the path resolver.
MaxSegs == 3
\* Most children of the node under test in the rendered templates.
MaxChildren == 1
\* Pieces (literal text, placeholders) of a composed content string
MaxPieces == 3
\* Largest item index a repeat node is expanded for
MaxIndex == 2
\* Levels of descendants below an expanded repeat node
MaxDepth == 2
\* Entries of a style map
MaxStyles == 2
\* Render calls of one render
MaxCalls == 60
\* Chat messages sent
MaxSends == 2
\* getResume requests in flight
MaxLoads == 2

(***************************************************************************)
(* JavaScript values.                                                      *)
(***************************************************************************)
Undef == [t |-> "undefined"]
Null == [t |-> "null"]
Str(s) == [t |-> "string", v |-> s]
Num(n) == [t |-> "number", v |-> n]
Arr(a) == [t |-> "array", v |-> a]
Obj(o) == [t |-> "object", v |-> o]
KV(key, val) == [k |-> key, v |-> val]
\* A JavaScript exception leaving the function.
Throw == [t |-> "throw"]
\* A call that has not returned yet.
Pending == [t |-> "pending"]

EmptyStr == Str(<<>>)

\* !x
Falsy(x) ==
    \/ x.t \in {"undefined", "null"}
    \/ x.t = "string" /\ x.v = <<>>
    \/ x.t = "number" /\ x.v = 0
    \/ x.t = "boolean" /\ ~x.v

\* typeof x === 'object' with x neither null nor undefined
IsComposite(x) == x.t \in {"array", "object"}

(***************************************************************************)
(* Characters.  A character outside ASCII is written by its code point,    *)
(* "u6280" for U+6280; it has no upper or lower case.                      *)
(***************************************************************************)
Digits == <<"0", "1", "2", "3", "4", "5", "6", "7", "8", "9">>
DigitSet == {Digits[i] : i \in 1..10}
DigitVal(c) == (CHOOSE i \in 1..10 : Digits[i] = c) - 1

UpperCase == <<"A", "B", "C", "D", "E", "F", "G", "H", "I", "J", "K", "L", "M",
               "N", "O", "P", "Q", "R", "S", "T", "U", "V", "W", "X", "Y", "Z">>
LowerCase == <<"a", "b", "c", "d", "e", "f", "g", "h", "i", "j", "k", "l", "m",
               "n", "o", "p", "q", "r", "s", "t", "u", "v", "w", "x", "y", "z">>
UpperSet == {UpperCase[i] : i \in 1..26}

\* String.prototype.toLowerCase, one character
LowerChar(c) ==
    IF c \in UpperSet
    THEN LowerCase[CHOOSE i \in 1..26 : UpperCase[i] = c]
    ELSE c

\* String.prototype.toLowerCase
toLowerCase(s) == [i \in 1..Len(s) |-> LowerChar(s[i])]

WhiteSpace == {" "}

RECURSIVE TrimLeft(_)
TrimLeft(s) ==
    IF s # <<>> /\ Head(s) \in WhiteSpace THEN TrimLeft(Tail(s)) ELSE s

RECURSIVE TrimRight(_)
TrimRight(s) ==
    IF s # <<>> /\ s[Len(s)] \in WhiteSpace
    THEN TrimRight(SubSeq(s, 1, Len(s) - 1))
    ELSE s

\* String.prototype.trim
trim(s) == TrimRight(TrimLeft(s))

\* String.prototype.startsWith
startsWith(s, p) == Len(s) >= Len(p) /\ SubSeq(s, 1, Len(p)) = p

\* String.prototype.slice(n)
slice(s, n) == SubSeq(s, n + 1, Len(s))

RECURSIVE Flatten(_)
Flatten(ss) == IF ss = <<>> THEN <<>> ELSE Head(ss) \o Flatten(Tail(ss))

\* Array.prototype.join on strings
RECURSIVE join(_, _)
join(ss, sep) ==
    IF ss = <<>> THEN <<>>
    ELSE IF Len(ss) = 1 THEN ss[1]
    ELSE ss[1] \o sep \o join(Tail(ss), sep)

\* String.prototype.split on a one-character separator
RECURSIVE split(_, _)
split(s, sep) ==
    IF \A i \in 1..Len(s) : s[i] # sep
    THEN <<s>>
    ELSE LET i == CHOOSE j \in 1..Len(s) :
                     s[j] = sep /\ \A h \in 1..(j - 1) : s[h] # sep
         IN <<SubSeq(s, 1, i - 1)>> \o split(SubSeq(s, i + 1, Len(s)), sep)

\* The longest prefix of s made of digits
RECURSIVE DigitPrefix(_)
DigitPrefix(s) ==
    IF s # <<>> /\ Head(s) \in DigitSet
    THEN <<Head(s)>> \o DigitPrefix(Tail(s))
    ELSE <<>>

RECURSIVE DecimalValue(_)
DecimalValue(ds) ==
    IF ds = <<>> THEN 0
    ELSE 10 * DecimalValue(SubSeq(ds, 1, Len(ds) - 1)) + DigitVal(ds[Len(ds)])

\* String(n) for an integer n >= 0
RECURSIVE NatToString(_)
NatToString(n) ==
    IF n < 10 THEN <<Digits[n + 1]>>
    ELSE NatToString(n \div 10) \o <<Digits[(n % 10) + 1]>>

NaN == [nan |-> TRUE, n |-> 0]

\* parseInt(s, 10): leading white space, an optional sign, then the longest
\* run of digits; whatever follows the digits is ignored.
parseInt(s) ==
    LET t == TrimLeft(s)
        signed == t # <<>> /\ Head(t) \in {"+", "-"}
        u == IF signed THEN Tail(t) ELSE t
        d == DigitPrefix(u)
    IN IF d = <<>> THEN NaN
       ELSE [nan |-> FALSE,
             n |-> IF signed /\ Head(t) = "-"
                   THEN 0 - DecimalValue(d) ELSE DecimalValue(d)]

(***************************************************************************)
(* Property access.                                                        *)
(***************************************************************************)
\* array[n] for an integer n
ArrayAt(a, n) == IF n >= 0 /\ n < Len(a) THEN a[n + 1] ELSE Undef

s_length == <<"l", "e", "n", "g", "t", "h">>

HasKey(o, key) == \E i \in 1..Len(o) : o[i].k = key

\* value[key] for a string key on an array or an object
PropertyOf(x, key) ==
    IF x.t = "array"
    THEN IF key = s_length THEN Num(Len(x.v))
         ELSE IF key # <<>> /\ (\A i \in 1..Len(key) : key[i] \in DigitSet)
                 /\ NatToString(DecimalValue(key)) = key
              THEN ArrayAt(x.v, DecimalValue(key))
              ELSE Undef
    ELSE IF HasKey(x.v, key)
         THEN x.v[CHOOSE i \in 1..Len(x.v) : x.v[i].k = key].v
         ELSE Undef

(***************************************************************************)
(* Path resolver: getValueByPath.                                          *)
(***************************************************************************)
\* path.replace(/\[(\d+)\]/g, '.$1') that forgets the dot
RECURSIVE WrongReplaceBracketIndex(_)
WrongReplaceBracketIndex(s) ==
    IF s = <<>> THEN <<>>
    ELSE LET d == DigitPrefix(Tail(s))
         IN IF Head(s) = "[" /\ d # <<>> /\ Len(s) >= Len(d) + 2
               /\ s[Len(d) + 2] = "]"
            THEN d \o WrongReplaceBracketIndex(SubSeq(s, Len(d) + 3, Len(s)))
            ELSE <<Head(s)>> \o WrongReplaceBracketIndex(Tail(s))

\* path.replace(/\[(\d+)\]/g, '.$1')
RECURSIVE ReplaceBracketIndex(_)
ReplaceBracketIndex(s) ==
    IF s = <<>> THEN <<>>
    ELSE LET d == DigitPrefix(Tail(s))
         IN IF Head(s) = "[" /\ d # <<>> /\ Len(s) >= Len(d) + 2
               /\ s[Len(d) + 2] = "]"
            THEN <<".">> \o d \o ReplaceBracketIndex(SubSeq(s, Len(d) + 3, Len(s)))
            ELSE <<Head(s)>> \o ReplaceBracketIndex(Tail(s))

\* One iteration of the loop body, after its two early returns.
PathStep(current, part) ==
    LET arrayIndex == parseInt(part)
    IN IF ~arrayIndex.nan /\ current.t = "array"
       THEN ArrayAt(current.v, arrayIndex.n)
       ELSE PropertyOf(current, part)

\* The loop without its early returns of '': whatever was reached comes back.
RECURSIVE WrongWalkParts(_, _)
WrongWalkParts(current, parts) ==
    IF parts = <<>> THEN current
    ELSE IF ~IsComposite(current) THEN Undef
    ELSE WrongWalkParts(PathStep(current, Head(parts)), Tail(parts))

RECURSIVE WalkParts(_, _)
WalkParts(current, parts) ==
    IF parts = <<>> THEN current
    ELSE IF current.t \in {"null", "undefined"} THEN EmptyStr
    ELSE IF ~IsComposite(current) THEN EmptyStr
    ELSE WalkParts(PathStep(current, Head(parts)), Tail(parts))

getValueByPath(obj, path) ==
    IF Falsy(obj) \/ path = <<>> THEN EmptyStr
    ELSE WalkParts(obj, split(ReplaceBracketIndex(path), "."))

\* Editor.tsx carries its own copy of the resolver.
Editor_PathStep(current, part) ==
    LET arrayIndex == parseInt(part)
    IN IF ~arrayIndex.nan /\ current.t = "array"
       THEN ArrayAt(current.v, arrayIndex.n)
       ELSE PropertyOf(current, part)

RECURSIVE Editor_WalkParts(_, _)
Editor_WalkParts(current, parts) ==
    IF parts = <<>> THEN current
    ELSE IF current.t \in {"null", "undefined"} THEN EmptyStr
    ELSE IF ~IsComposite(current) THEN EmptyStr
    ELSE Editor_WalkParts(Editor_PathStep(current, Head(parts)), Tail(parts))

Editor_getValueByPath(obj, path) ==
    IF Falsy(obj) \/ path = <<>> THEN EmptyStr
    ELSE Editor_WalkParts(obj, split(ReplaceBracketIndex(path), "."))

(***************************************************************************)
(* The path resolver applied to bounded roots and paths.                   *)
(***************************************************************************)
AllDigits(s) == s # <<>> /\ \A i \in 1..Len(s) : s[i] \in DigitSet

\* A path as a template author writes it: segments joined by dots, or with
\* every all-digit segment after the first written as a bracket suffix.
RECURSIVE Spell(_, _)
Spell(segs, style) ==
    IF segs = <<>> THEN <<>>
    ELSE IF Len(segs) = 1 THEN segs[1]
    ELSE LET last == segs[Len(segs)]
             front == Spell(SubSeq(segs, 1, Len(segs) - 1), style)
         IN IF style = "bracket" /\ AllDigits(last)
            THEN front \o <<"[">> \o last \o <<"]">>
            ELSE front \o <<".">> \o last

Segments == {<<"a">>, <<"b">>, <<"x">>, <<"0">>, <<"1">>, <<"1", "x">>, <<"-", "1">>}

SegLists == UNION {[1..n -> Segments] : n \in 0..MaxSegs}

\* {a: {b: [10, 20]}}
Root_ab == Obj(<<KV(<<"a">>, Obj(<<KV(<<"b">>, Arr(<<Num(10), Num(20)>>))>>))>>)
\* {a: [{b: "s"}, "t"], b: null, x: "", "1": 7}
Root_mixed ==
    Obj(<<KV(<<"a">>, Arr(<<Obj(<<KV(<<"b">>, Str(<<"s">>))>>), Str(<<"t">>)>>)),
          KV(<<"b">>, Null), KV(<<"x">>, EmptyStr), KV(<<"1">>, Num(7))>>)
\* [[1], {a: 0}]
Root_array == Arr(<<Arr(<<Num(1)>>), Obj(<<KV(<<"a">>, Num(0))>>)>>)

ResolveRoots == {Root_ab, Obj(<<>>), Root_mixed, Root_array, Undef, Str(<<"a", "b">>)}

NoResult == [interactive |-> Pending, export |-> Pending]

InitResolve ==
    /\ \E o \in ResolveRoots, segs \in SegLists, style \in {"dot", "bracket"} :
          call = [fn |-> "getValueByPath", obj |-> o, segs |-> segs,
                  path |-> Spell(segs, style)]
    /\ ret = NoResult

\* ASTRenderer.tsx resolves the path.
CallGetValueByPath ==
    /\ call.fn = "getValueByPath"
    /\ ret.interactive = Pending
    /\ ret' = [ret EXCEPT !.interactive = getValueByPath(call.obj, call.path)]
    /\ UNCHANGED call

\* Editor.tsx resolves the path.
CallEditorGetValueByPath ==
    /\ call.fn = "getValueByPath"
    /\ ret.export = Pending
    /\ ret' = [ret EXCEPT !.export = Editor_getValueByPath(call.obj, call.path)]
    /\ UNCHANGED call

NextResolve == CallGetValueByPath \/ CallEditorGetValueByPath

SpecResolve == InitResolve /\ [][NextResolve]_vars

(***************************************************************************)
(* Claims about the path resolver.                                         *)
(***************************************************************************)
\* What segment seg names in the composite cur, as the resolver decides it:
\* an element when cur is an array and the segment starts as an integer,
\* a property otherwise.
NamedBy(cur, seg) ==
    IF cur.t = "array" /\ ~parseInt(seg).nan
    THEN ArrayAt(cur.v, parseInt(seg).n)
    ELSE PropertyOf(cur, seg)

\* The value reached after the first n segments; absent once the walk has
\* left the composites.
RECURSIVE ReachedAfter(_, _, _)
ReachedAfter(root, segs, n) ==
    IF n = 0 THEN root
    ELSE LET prev == ReachedAfter(root, segs, n - 1)
         IN IF IsComposite(prev) THEN NamedBy(prev, segs[n]) ELSE Undef

\* Some segment is applied to null, an absent value or a primitive.
WalkStuck(root, segs) ==
    \E i \in 0..(Len(segs) - 1) : ~IsComposite(ReachedAfter(root, segs, i))

ResolveCalled == call.fn = "getValueByPath"
ResolveResults == {ret.interactive, ret.export} \ {Pending}

\* C7 (as claimed): resolve returns "" whenever a step of the walk fails,
\* the final segment naming a missing key or index included.
C7_Original ==
    ResolveCalled =>
        \A r \in ResolveResults :
            (\/ WalkStuck(call.obj, call.segs)
             \/ ReachedAfter(call.obj, call.segs, Len(call.segs)) = Undef)
            => r = EmptyStr

\* C7 (amended): resolve never throws; it returns "" for an empty root or
\* path and when a segment is applied to a null, absent or primitive value;
\* otherwise it returns what the last segment names, which is undefined (not
\* "") when only the last segment names a missing key or index.
C7_ResolveSentinel ==
    ResolveCalled =>
        \A r \in ResolveResults :
            /\ r # Throw
            /\ IF Falsy(call.obj) \/ call.path = <<>>
                  \/ WalkStuck(call.obj, call.segs)
               THEN r = EmptyStr
               ELSE r = ReachedAfter(call.obj, call.segs, Len(call.segs))

\* Both copies resolved {a: {b: [10, 20]}} "a.x" to undefined and the walk of
\* another call got stuck: here the final segment alone is missing.
C7_Witness ==
    /\ ResolveCalled
    /\ call.obj = Root_ab
    /\ call.segs = <<<<"a">>, <<"x">>>>
    /\ ret.interactive = Undef
    /\ ret.export = Undef

\* C8: a path that writes an index as a bracket suffix seg[N] resolves to
\* the same value as the path that writes it as a dotted segment seg.N.
C8_BracketEqualsDot ==
    ResolveCalled =>
        \A r \in ResolveResults :
            /\ r = getValueByPath(call.obj, Spell(call.segs, "dot"))
            /\ r = Editor_getValueByPath(call.obj, Spell(call.segs, "dot"))

\* resolve({a: {b: [10, 20]}}, "a.b[1]") returned 20.
C8_Witness ==
    /\ ResolveCalled
    /\ call.obj = Root_ab
    /\ call.path = <<"a", ".", "b", "[", "1", "]">>
    /\ ret.interactive = Num(20)
    /\ ret.export = Num(20)

\* The walk the specification describes: a segment indexes only when it is
\* a non-negative integer and the current value is an array; any other
\* segment is a property-key lookup.
ClaimedStep(cur, seg) ==
    IF AllDigits(seg) /\ cur.t = "array"
    THEN ArrayAt(cur.v, DecimalValue(seg))
    ELSE PropertyOf(cur, seg)

RECURSIVE ClaimedWalk(_, _)
ClaimedWalk(cur, segs) ==
    IF segs = <<>> THEN cur
    ELSE IF ~IsComposite(cur) THEN EmptyStr
    ELSE ClaimedWalk(ClaimedStep(cur, Head(segs)), Tail(segs))

\* C9: a segment indexes into the current value only when it is a
\* non-negative integer and the current value is an array; every other
\* segment (-1, 1x, any segment on a plain object) is a property-key lookup.
C9_IndexOnlyForIntegers ==
    ResolveCalled /\ ~Falsy(call.obj) /\ call.path # <<>> =>
        \A r \in ResolveResults : r = ClaimedWalk(call.obj, call.segs)

(***************************************************************************)
(* Section type normalizer: SECTION_TYPE_MAP and normalizeType.            *)
(***************************************************************************)
s_skill == <<"s", "k", "i", "l", "l">>
s_skills == <<"s", "k", "i", "l", "l", "s">>
s_education == <<"e", "d", "u", "c", "a", "t", "i", "o", "n">>
s_educations == <<"e", "d", "u", "c", "a", "t", "i", "o", "n", "s">>
s_experience == <<"e", "x", "p", "e", "r", "i", "e", "n", "c", "e">>
s_experiences == <<"e", "x", "p", "e", "r", "i", "e", "n", "c", "e", "s">>
s_project == <<"p", "r", "o", "j", "e", "c", "t">>
s_projects == <<"p", "r", "o", "j", "e", "c", "t", "s">>
s_zh_skill == <<"u6280", "u80fd">>
s_zh_proskill == <<"u4e13", "u4e1a", "u6280", "u80fd">>
s_zh_edu == <<"u6559", "u80b2">>
s_zh_edubg == <<"u6559", "u80b2", "u80cc", "u666f">>
s_zh_degree == <<"u5b66", "u5386">>
s_zh_exp == <<"u7ecf", "u9a8c">>
s_zh_workexp == <<"u5de5", "u4f5c", "u7ecf", "u9a8c">>
s_zh_workhist == <<"u5de5", "u4f5c", "u7ecf", "u5386">>
s_zh_proj == <<"u9879", "u76ee">>
s_zh_projhist == <<"u9879", "u76ee", "u7ecf", "u5386">>
s_widget == <<"w", "i", "d", "g", "e", "t">>

SECTION_TYPE_MAP ==
    <<[kind |-> s_skill,
       variants |-> <<s_skill, s_skills, s_zh_skill, s_zh_proskill>>],
      [kind |-> s_education,
       variants |-> <<s_education, s_educations, s_zh_edu, s_zh_edubg, s_zh_degree>>],
      [kind |-> s_experience,
       variants |-> <<s_experience, s_experiences, s_zh_exp, s_zh_workexp,
                      s_zh_workhist>>],
      [kind |-> s_project,
       variants |-> <<s_project, s_projects, s_zh_proj, s_zh_projhist>>]>>

\* The first entry of map, in Object.entries order, one of whose variants
\* lower-cases to lowerType; null when there is none.
FirstKind(map, lowerType) ==
    LET hits == {i \in 1..Len(map) :
                    \E j \in 1..Len(map[i].variants) :
                        toLowerCase(map[i].variants[j]) = lowerType}
    IN IF hits = {} THEN Null
       ELSE Str(map[CHOOSE i \in hits : \A h \in hits : i <= h].kind)

\* normalizeType comparing the label as written, without lower-casing it
WrongNormalizeType(typeName) == FirstKind(SECTION_TYPE_MAP, typeName)

normalizeType(typeName) == FirstKind(SECTION_TYPE_MAP, toLowerCase(typeName))

\* Editor.tsx keeps its own table and its own normalizer.
Editor_SECTION_TYPE_MAP ==
    <<[kind |-> s_skill,
       variants |-> <<s_skill, s_skills, s_zh_skill, s_zh_proskill>>],
      [kind |-> s_education,
       variants |-> <<s_education, s_educations, s_zh_edu, s_zh_edubg, s_zh_degree>>],
      [kind |-> s_experience,
       variants |-> <<s_experience, s_experiences, s_zh_exp, s_zh_workexp,
                      s_zh_workhist>>],
      [kind |-> s_project,
       variants |-> <<s_project, s_projects, s_zh_proj, s_zh_projhist>>]>>

Editor_normalizeType(typeName) ==
    FirstKind(Editor_SECTION_TYPE_MAP, toLowerCase(typeName))

(***************************************************************************)
(* The normalizer applied to labels around the synonym lists.              *)
(***************************************************************************)
UpperChar(c) ==
    IF \E i \in 1..26 : LowerCase[i] = c
    THEN UpperCase[CHOOSE i \in 1..26 : LowerCase[i] = c]
    ELSE c

Synonyms ==
    UNION {{SECTION_TYPE_MAP[i].variants[j] :
               j \in 1..Len(SECTION_TYPE_MAP[i].variants)} :
           i \in 1..Len(SECTION_TYPE_MAP)}

\* Each synonym as listed, capitalised, in upper case, cut by one character,
\* extended by one character and behind a space; and a label of no list.
LabelsAround(w) ==
    {w,
     [i \in 1..Len(w) |-> IF i = 1 THEN UpperChar(w[i]) ELSE w[i]],
     [i \in 1..Len(w) |-> UpperChar(w[i])],
     SubSeq(w, 1, Len(w) - 1),
     w \o <<"s">>,
     <<" ">> \o w}

Labels == UNION {LabelsAround(w) : w \in Synonyms} \cup {s_widget}

InitNormalize ==
    /\ \E l \in Labels : call = [fn |-> "normalizeType", typeName |-> l]
    /\ ret = NoResult

\* ASTRenderer.tsx normalizes the label.
CallNormalizeType ==
    /\ call.fn = "normalizeType"
    /\ ret.interactive = Pending
    /\ ret' = [ret EXCEPT !.interactive = normalizeType(call.typeName)]
    /\ UNCHANGED call

\* Editor.tsx normalizes the label.
CallEditorNormalizeType ==
    /\ call.fn = "normalizeType"
    /\ ret.export = Pending
    /\ ret' = [ret EXCEPT !.export = Editor_normalizeType(call.typeName)]
    /\ UNCHANGED call

NextNormalize == CallNormalizeType \/ CallEditorNormalizeType

SpecNormalize == InitNormalize /\ [][NextNormalize]_vars

(***************************************************************************)
(* Claims about the normalizer.                                            *)
(***************************************************************************)
\* Two strings are the same up to the case of their letters.
SameIgnoringCase(a, b) ==
    /\ Len(a) = Len(b)
    /\ \A i \in 1..Len(a) :
          \/ a[i] = b[i]
          \/ \E n \in 1..26 : {a[i], b[i]} = {LowerCase[n], UpperCase[n]}

\* The kinds one of whose listed synonyms is the label up to case.
KindsMatching(map, label) ==
    {map[i].kind : i \in {h \in 1..Len(map) :
        \E j \in 1..Len(map[h].variants) :
            SameIgnoringCase(map[h].variants[j], label)}}

NormalizeCalled == call.fn = "normalizeType"

\* C10: normalize(label) is kind k exactly when the label equals, up to
\* case, an entry of k's synonym list, and none otherwise: no prefix or
\* extension of a synonym matches, a canonical kind normalizes to itself and
\* no label matches two kinds.
C10_NormalizeExact ==
    NormalizeCalled =>
        /\ ret.interactive # Pending =>
             LET ks == KindsMatching(SECTION_TYPE_MAP, call.typeName)
             IN /\ Cardinality(ks) <= 1
                /\ ks = {} => ret.interactive = Null
                /\ \A k \in ks : ret.interactive = Str(k)
                /\ \A i \in 1..Len(SECTION_TYPE_MAP) :
                      call.typeName = SECTION_TYPE_MAP[i].kind
                      => ret.interactive = Str(call.typeName)
        /\ ret.export # Pending =>
             LET ks == KindsMatching(Editor_SECTION_TYPE_MAP, call.typeName)
             IN /\ Cardinality(ks) <= 1
                /\ ks = {} => ret.export = Null
                /\ \A k \in ks : ret.export = Str(k)
                /\ \A i \in 1..Len(Editor_SECTION_TYPE_MAP) :
                      call.typeName = Editor_SECTION_TYPE_MAP[i].kind
                      => ret.export = Str(call.typeName)
        /\ \A r \in {ret.interactive, ret.export} \ {Pending} :
              /\ call.typeName = s_zh_skill => r = Str(s_skill)
              /\ call.typeName = <<"E">> \o Tail(s_experience) => r = Str(s_experience)
              /\ call.typeName = s_widget => r = Null
              /\ call.typeName = SubSeq(s_skill, 1, 4) => r = Null
              /\ call.typeName = <<" ">> \o s_project => r = Null

\* normalize("Experience") returned experience in both copies.
C10_Witness ==
    /\ NormalizeCalled
    /\ call.typeName = <<"E">> \o Tail(s_experience)
    /\ ret.interactive = Str(s_experience)
    /\ ret.export = Str(s_experience)

(***************************************************************************)
(* Variable interpolator: resolveContent.                                  *)
(***************************************************************************)
s_null == <<"n", "u", "l", "l">>
s_undefined == <<"u", "n", "d", "e", "f", "i", "n", "e", "d">>
s_objectObject == <<"[", "o", "b", "j", "e", "c", "t", " ", "O", "b", "j", "e", "c", "t", "]">>
s_item_dot == <<"i", "t", "e", "m", ".">>
s_section_dot == <<"s", "e", "c", "t", "i", "o", "n", ".">>
s_content_dot == <<"c", "o", "n", "t", "e", "n", "t", ".">>
s_sections_bracket == <<"s", "e", "c", "t", "i", "o", "n", "s", "[">>
s_type == <<"t", "y", "p", "e">>
s_id == <<"i", "d">>
s_content == <<"c", "o", "n", "t", "e", "n", "t">>
s_sections == <<"s", "e", "c", "t", "i", "o", "n", "s">>
s_sections_dot == <<"s", "e", "c", "t", "i", "o", "n", "s", ".">>
s_profile == <<"p", "r", "o", "f", "i", "l", "e">>
s_name == <<"n", "a", "m", "e">>
s_title == <<"t", "i", "t", "l", "e">>
s_tags == <<"t", "a", "g", "s">>

\* String(x); numbers of the model are integers >= 0
RECURSIVE String(_)
String(x) ==
    CASE x.t = "string" -> x.v
      [] x.t = "number" -> NatToString(x.v)
      [] x.t = "null" -> s_null
      [] x.t = "undefined" -> s_undefined
      [] x.t = "object" -> s_objectObject
      [] x.t = "boolean" -> IF x.v THEN <<"t", "r", "u", "e">>
                                   ELSE <<"f", "a", "l", "s", "e">>
      [] x.t = "array" ->
            join([i \in 1..Len(x.v) |->
                    IF x.v[i].t \in {"null", "undefined"} THEN <<>>
                    ELSE String(x.v[i])], <<",">>)

\* Array.prototype.join(sep)
ArrayJoin(a, sep) ==
    join([i \in 1..Len(a) |->
            IF a[i].t \in {"null", "undefined"} THEN <<>> ELSE String(a[i])],
         sep)

\* String(value) without the `|| ''` of the replacer
WrongTextOf(value) ==
    IF value.t = "array" THEN ArrayJoin(value.v, <<",", " ">>)
    ELSE String(value)

\* Array.isArray(value) ? value.join(', ') : String(value || '')
TextOf(value) ==
    IF value.t = "array" THEN ArrayJoin(value.v, <<",", " ">>)
    ELSE IF Falsy(value) THEN <<>> ELSE String(value)

\* x[key] for any x: a TypeError on null and undefined, absent on primitives
Member(x, key) ==
    IF x.t \in {"null", "undefined"} THEN Throw
    ELSE IF IsComposite(x) THEN PropertyOf(x, key)
    ELSE Undef

\* The longest prefix of s without a closing brace: [^}]+ is greedy
RECURSIVE NoBracePrefix(_)
NoBracePrefix(s) ==
    IF s # <<>> /\ Head(s) # "}"
    THEN <<Head(s)>> \o NoBracePrefix(Tail(s))
    ELSE <<>>

\* /\{\{([^}]+)\}\}/g over s: the matches, left to right, each with its
\* group, and the characters between them
RECURSIVE MatchAll(_)
MatchAll(s) ==
    IF s = <<>> THEN <<>>
    ELSE LET g == NoBracePrefix(SubSeq(s, 3, Len(s)))
         IN IF /\ Len(s) >= 5
               /\ s[1] = "{" /\ s[2] = "{"
               /\ g # <<>>
               /\ Len(s) >= Len(g) + 4
               /\ s[Len(g) + 3] = "}" /\ s[Len(g) + 4] = "}"
            THEN <<[match |-> TRUE, text |-> g]>>
                    \o MatchAll(SubSeq(s, Len(g) + 5, Len(s)))
            ELSE <<[match |-> FALSE, text |-> <<Head(s)>>]>> \o MatchAll(Tail(s))

\* trimmedPath.match(/^sections\[\d*\]\.(.+)$/)
SectionMatch(trimmedPath) ==
    IF startsWith(trimmedPath, s_sections_bracket)
    THEN LET rest == slice(trimmedPath, Len(s_sections_bracket))
             after == slice(rest, Len(DigitPrefix(rest)))
         IN IF startsWith(after, <<"]", ".">>) /\ Len(after) > 2
            THEN [ok |-> TRUE, fieldPath |-> slice(after, 2)]
            ELSE [ok |-> FALSE, fieldPath |-> <<>>]
    ELSE [ok |-> FALSE, fieldPath |-> <<>>]

\* The replacer callback without the rules of the repeat context
WrongReplacement(path, data, repeatItem) ==
    Str(TextOf(getValueByPath(data, trim(path))))

\* The replacer callback of ASTRenderer.tsx for one {{path}}
Replacement(path, data, repeatItem) ==
    LET trimmedPath == trim(path)
        sectionMatch == SectionMatch(trimmedPath)
        directValue == getValueByPath(repeatItem, trimmedPath)
        global == Str(TextOf(getValueByPath(data, trimmedPath)))
    IN IF repeatItem = Undef THEN global
       ELSE IF startsWith(trimmedPath, s_item_dot)
       THEN Str(TextOf(getValueByPath(repeatItem, slice(trimmedPath, 5))))
       ELSE IF startsWith(trimmedPath, s_section_dot)
       THEN Str(TextOf(getValueByPath(repeatItem, slice(trimmedPath, 8))))
       ELSE IF sectionMatch.ok
       THEN Str(TextOf(getValueByPath(repeatItem, sectionMatch.fieldPath)))
       ELSE IF startsWith(trimmedPath, s_content_dot)
       THEN IF Member(repeatItem, s_content) = Throw THEN Throw
            ELSE Str(TextOf(getValueByPath(Member(repeatItem, s_content),
                                           slice(trimmedPath, 8))))
       ELSE IF trimmedPath \in {s_type, s_id}
       THEN LET own == Member(repeatItem, trimmedPath)
            IN IF own = Throw THEN Throw
               ELSE Str(IF Falsy(own) THEN <<>> ELSE String(own))
       ELSE IF directValue # EmptyStr /\ directValue # Undef
       THEN IF directValue.t = "array"
            THEN Str(ArrayJoin(directValue.v, <<",", " ">>))
            ELSE Str(String(directValue))
       ELSE global

\* content.replace(regex, replacer) with every replacement computed
Replaced(pieces, replacements) ==
    IF \E i \in 1..Len(pieces) : replacements[i] = Throw THEN Throw
    ELSE Str(Flatten([i \in 1..Len(pieces) |-> replacements[i].v]))

resolveContent(content, data, repeatItem) ==
    IF Falsy(content) THEN EmptyStr
    ELSE LET pieces == MatchAll(content.v)
         IN Replaced(pieces,
                [i \in 1..Len(pieces) |->
                    IF pieces[i].match
                    THEN Replacement(pieces[i].text, data, repeatItem)
                    ELSE Str(pieces[i].text)])

\* The replacer callback of Editor.tsx for one {{path}}
Editor_Replacement(path, data, repeatItem) ==
    LET trimmedPath == trim(path)
        directValue == Editor_getValueByPath(repeatItem, trimmedPath)
        global == Str(TextOf(Editor_getValueByPath(data, trimmedPath)))
    IN IF repeatItem = Undef THEN global
       ELSE IF startsWith(trimmedPath, s_item_dot)
       THEN Str(TextOf(Editor_getValueByPath(repeatItem, slice(trimmedPath, 5))))
       ELSE IF startsWith(trimmedPath, s_content_dot)
       THEN IF Member(repeatItem, s_content) = Throw THEN Throw
            ELSE Str(TextOf(Editor_getValueByPath(Member(repeatItem, s_content),
                                                  slice(trimmedPath, 8))))
       ELSE IF directValue # EmptyStr /\ directValue # Undef
       THEN IF directValue.t = "array"
            THEN Str(ArrayJoin(directValue.v, <<",", " ">>))
            ELSE Str(String(directValue))
       ELSE global

Editor_resolveContent(content, data, repeatItem) ==
    IF Falsy(content) THEN EmptyStr
    ELSE LET pieces == MatchAll(content.v)
         IN Replaced(pieces,
                [i \in 1..Len(pieces) |->
                    IF pieces[i].match
                    THEN Editor_Replacement(pieces[i].text, data, repeatItem)
                    ELSE Str(pieces[i].text)])

(***************************************************************************)
(* Resume data of the model.                                               *)
(***************************************************************************)
\* A SectionData {id, type, content}
Section(id, type, content) ==
    Obj(<<KV(s_id, Str(id)), KV(s_type, Str(type)), KV(s_content, Obj(content))>>)

s_award == <<"a", "w", "a", "r", "d">>
s_awards == <<"a", "w", "a", "r", "d", "s">>

\* {id: "e1", type: "experience", content: {title: "A", tags: ["x", "y"]}}
Sec_e1 ==
    Section(<<"e", "1">>, s_experience,
            <<KV(s_title, Str(<<"A">>)),
              KV(s_tags, Arr(<<Str(<<"x">>), Str(<<"y">>)>>))>>)
\* {id: "k1", type: "skill", content: {title: "S"}}
Sec_k1 == Section(<<"k", "1">>, s_skill, <<KV(s_title, Str(<<"S">>))>>)
\* {id: "e2", type: "experience", content: {title: "B"}}
Sec_e2 == Section(<<"e", "2">>, s_experience, <<KV(s_title, Str(<<"B">>))>>)
\* {id: "k2", type: "skills", content: {}}: a type stored in its plural form
Sec_k2 == Section(<<"k", "2">>, s_skills, <<>>)
\* {id: "a1", type: "award", content: {title: "W"}}: a free-text type
Sec_a1 == Section(<<"a", "1">>, s_award, <<KV(s_title, Str(<<"W">>))>>)

Profile == Obj(<<KV(s_name, Str(<<"N">>))>>)

\* A ResumeData {profile, sections}
ResumeData(sections) == Obj(<<KV(s_profile, Profile), KV(s_sections, Arr(sections))>>)

DataEmpty == ResumeData(<<>>)
DataTwo == ResumeData(<<Sec_e1, Sec_k1, Sec_e2>>)
\* Free-text and plural types, and an array beside profile and sections.
DataMixed ==
    Obj(<<KV(s_profile, Profile),
          KV(s_sections, Arr(<<Sec_k2, Sec_a1, Sec_k1>>)),
          KV(s_awards, Arr(<<Obj(<<KV(s_title, Str(<<"W">>))>>),
                             Obj(<<KV(s_title, Str(<<"V">>))>>)>>))>>)

s_note == <<"n", "o", "t", "e">>
s_count == <<"c", "o", "u", "n", "t">>
s_x == <<"x">>
s_item == <<"i", "t", "e", "m">>

\* {id: "n1", type: "skill", content: {count: 0, n: 3}, note: null}: an
\* item as parsed from JSON, with number values and a null field
Sec_n1 ==
    Obj(<<KV(s_id, Str(<<"n", "1">>)), KV(s_type, Str(s_skill)),
          KV(s_content, Obj(<<KV(s_count, Num(0)), KV(<<"n">>, Num(3))>>)),
          KV(s_note, Null)>>)

\* Data with top-level keys named like the item-scoped prefixes:
\* {profile, sections: [e1], content: {x: "G"}, item: {x: "H"}, note: "M"}
DataGlobal ==
    Obj(<<KV(s_profile, Profile),
          KV(s_sections, Arr(<<Sec_e1>>)),
          KV(s_content, Obj(<<KV(s_x, Str(<<"G">>))>>)),
          KV(s_item, Obj(<<KV(s_x, Str(<<"H">>))>>)),
          KV(s_note, Str(<<"M">>))>>)

(***************************************************************************)
(* The two interpolators applied to bounded contents.                      *)
(***************************************************************************)
InterpPaths ==
    {
     \* item.content.title
     <<"i", "t", "e", "m", ".", "c", "o", "n", "t", "e", "n", "t", ".", "t", "i", "t", "l", "e">>,
     \* item.id
     <<"i", "t", "e", "m", ".", "i", "d">>,
     \* content.title
     <<"c", "o", "n", "t", "e", "n", "t", ".", "t", "i", "t", "l", "e">>,
     \* content.tags
     <<"c", "o", "n", "t", "e", "n", "t", ".", "t", "a", "g", "s">>,
     \* content.missing
     <<"c", "o", "n", "t", "e", "n", "t", ".", "m", "i", "s", "s", "i", "n", "g">>,
     \* section.type
     <<"s", "e", "c", "t", "i", "o", "n", ".", "t", "y", "p", "e">>,
     \* sections[0].id
     <<"s", "e", "c", "t", "i", "o", "n", "s", "[", "0", "]", ".", "i", "d">>,
     \* sections[].id
     <<"s", "e", "c", "t", "i", "o", "n", "s", "[", "]", ".", "i", "d">>,
     \* sections[1].content.title
     <<"s", "e", "c", "t", "i", "o", "n", "s", "[", "1", "]", ".", "c", "o", "n", "t", "e", "n", "t", ".", "t", "i", "t", "l", "e">>,
     \* type
     <<"t", "y", "p", "e">>,
     \* id
     <<"i", "d">>,
     \*  id 
     <<" ", "i", "d", " ">>,
     \* profile.name
     <<"p", "r", "o", "f", "i", "l", "e", ".", "n", "a", "m", "e">>,
     \* sections.0.id
     <<"s", "e", "c", "t", "i", "o", "n", "s", ".", "0", ".", "i", "d">>,
     \* note
     <<"n", "o", "t", "e">>,
     \* content.count
     <<"c", "o", "n", "t", "e", "n", "t", ".", "c", "o", "u", "n", "t">>,
     \* content.n
     <<"c", "o", "n", "t", "e", "n", "t", ".", "n">>,
     \* content.x
     <<"c", "o", "n", "t", "e", "n", "t", ".", "x">>,
     \* item.x
     <<"i", "t", "e", "m", ".", "x">>,
     \* missing.path
     <<"m", "i", "s", "s", "i", "n", "g", ".", "p", "a", "t", "h">>
    }

Placeholder(path) == <<"{", "{">> \o path \o <<"}", "}">>

\* The pieces a content string is written from: literal text, a complete
\* placeholder, and an opening {{ that is never closed.
Lit(text) == [kind |-> "lit", text |-> text]
Tok(path) == [kind |-> "token", text |-> path]
Unclosed(text) == [kind |-> "unclosed", text |-> text]

PieceText(piece) ==
    CASE piece.kind = "lit" -> piece.text
      [] piece.kind = "token" -> Placeholder(piece.text)
      [] piece.kind = "unclosed" -> <<"{", "{">> \o piece.text

s_missing_path == <<"m", "i", "s", "s", "i", "n", "g", ".", "p", "a", "t", "h">>
s_profile_name == <<"p", "r", "o", "f", "i", "l", "e", ".", "n", "a", "m", "e">>

PieceKinds ==
    {Lit(<<"H", "e", "l", "l", "o", " ">>), Lit(<<"!">>), Tok(s_missing_path), Tok(s_profile_name),
     Unclosed(s_id)}

\* A placeholder alone and inside text, for every path; every composition
\* of up to MaxPieces pieces; no content at all.
PieceLists ==
    {<<Tok(q)>> : q \in InterpPaths}
    \cup {<<Lit(<<"T", ":">>), Tok(q), Lit(<<".">>)>> : q \in InterpPaths}
    \cup UNION {[1..n -> PieceKinds] : n \in 0..MaxPieces}

ContentOf(ps) == Str(Flatten([i \in 1..Len(ps) |-> PieceText(ps[i])]))

InterpContents == {ContentOf(ps) : ps \in PieceLists} \cup {Undef}

InterpData == {DataTwo, DataMixed, DataGlobal}
InterpItems == {Undef, Sec_e1, Sec_k1, Sec_n1}

InitInterp ==
    /\ \E d \in InterpData, it \in InterpItems :
          \/ \E ps \in PieceLists :
                call = [fn |-> "resolveContent", pieces |-> ps,
                        content |-> ContentOf(ps), data |-> d, repeatItem |-> it]
          \/ call = [fn |-> "resolveContent", pieces |-> <<>>,
                     content |-> Undef, data |-> d, repeatItem |-> it]
    /\ ret = NoResult

\* ASTRenderer.tsx interpolates the content.
CallResolveContent ==
    /\ call.fn = "resolveContent"
    /\ ret.interactive = Pending
    /\ ret' = [ret EXCEPT !.interactive =
                  resolveContent(call.content, call.data, call.repeatItem)]
    /\ UNCHANGED call

\* Editor.tsx interpolates the content.
CallEditorResolveContent ==
    /\ call.fn = "resolveContent"
    /\ ret.export = Pending
    /\ ret' = [ret EXCEPT !.export =
                  Editor_resolveContent(call.content, call.data, call.repeatItem)]
    /\ UNCHANGED call

NextInterp == CallResolveContent \/ CallEditorResolveContent

SpecInterp == InitInterp /\ [][NextInterp]_vars

\* C1: for every content, data and repeat item (or none) the interactive
\* interpolator and the export interpolator return the same string.
C1_SameInterpolation ==
    call.fn = "resolveContent" /\ ret.interactive # Pending /\ ret.export # Pending
    => ret.interactive = ret.export

(***************************************************************************)
(* Claims about the text a placeholder is replaced by.                     *)
(***************************************************************************)
InterpCalled == call.fn = "resolveContent"
InterpResults == {ret.interactive, ret.export} \ {Pending}
HasItem == call.repeatItem # Undef

\* The content is one placeholder and nothing else
SinglePlaceholder ==
    /\ InterpCalled
    /\ Len(call.pieces) = 1
    /\ call.pieces[1].kind = "token"
ThePath == trim(call.pieces[1].text)

\* The text of a resolved value as specified: arrays joined with ", ",
\* strings as they are, nothing for a missing or null value, every other
\* value stringified.
ClaimedText(v) ==
    CASE v.t = "array" -> ArrayJoin(v.v, <<",", " ">>)
      [] v.t = "string" -> v.v
      [] v.t \in {"undefined", "null"} -> <<>>
      [] OTHER -> String(v)

\* The remainder of p after prefix, resolved against root; nothing when p
\* does not start with prefix
Scoped(root, p, prefix) ==
    IF startsWith(p, prefix)
    THEN {getValueByPath(root, slice(p, Len(prefix)))}
    ELSE {}

\* Every value one of the scoping rules can resolve the path to
Candidates(p, data, item) ==
    {getValueByPath(data, p)}
    \cup IF item = Undef THEN {}
         ELSE {getValueByPath(item, p)}
              \cup Scoped(item, p, s_item_dot)
              \cup Scoped(item, p, s_section_dot)
              \cup Scoped(PropertyOf(item, s_content), p, s_content_dot)
              \cup IF SectionMatch(p).ok
                   THEN {getValueByPath(item, SectionMatch(p).fieldPath)}
                   ELSE {}

\* C11: a placeholder is replaced by the elements joined with ", " for an
\* array, by the stringified value for another non-string value, and by the
\* empty string for a missing, null or empty value; it never produces the
\* texts "undefined" or "null", with or without a repeat item.
C11_PlaceholderText ==
    SinglePlaceholder =>
        \A r \in InterpResults :
            /\ r # Throw
            /\ r.v \notin {s_null, s_undefined}
            /\ r.v \in {ClaimedText(v) :
                           v \in Candidates(ThePath, call.data, call.repeatItem)}

\* The value the item-scoped rules named by the specification give
ItemScopedValue(p, item) ==
    IF startsWith(p, s_item_dot)
    THEN getValueByPath(item, slice(p, Len(s_item_dot)))
    ELSE IF startsWith(p, s_content_dot)
    THEN getValueByPath(PropertyOf(item, s_content), slice(p, Len(s_content_dot)))
    ELSE getValueByPath(item, p)

\* Paths that the interactive interpolator scopes by a rule of its own
OtherScope(p) ==
    \/ startsWith(p, s_section_dot)
    \/ SectionMatch(p).ok
    \/ p \in {s_type, s_id}

\* C12: inside a repeat context, a placeholder for which the item. prefix,
\* the content. prefix and the direct lookup on the item give no usable
\* value is resolved against the global data.
C12_FallThroughToGlobal ==
    /\ SinglePlaceholder
    /\ HasItem
    /\ ~OtherScope(ThePath)
    /\ ItemScopedValue(ThePath, call.repeatItem) \in {Undef, Null, EmptyStr}
    => \A r \in InterpResults :
          r = Str(ClaimedText(getValueByPath(call.data, ThePath)))

\* What a piece contributes outside a repeat context when literal text is
\* kept and a placeholder gives the text of its path in data (nothing for
\* an absent path)
PieceOutput(piece, data) ==
    IF piece.kind = "token"
    THEN ClaimedText(getValueByPath(data, trim(piece.text)))
    ELSE PieceText(piece)

ExpectedOutput == Flatten([i \in 1..Len(call.pieces) |->
                              PieceOutput(call.pieces[i], call.data)])

AllComplete == \A i \in 1..Len(call.pieces) : call.pieces[i].kind # "unclosed"

\* C13: without a repeat context every complete placeholder whose path is
\* absent from data is replaced by the empty string, every character
\* outside the placeholders stays unchanged and in place, and undefined or
\* empty input gives the empty string.
C13_LiteralTextKept ==
    InterpCalled /\ ~HasItem /\ AllComplete =>
        \A r \in InterpResults :
            /\ r = Str(ExpectedOutput)
            /\ Falsy(call.content) => r = EmptyStr

\* interpolate("Hello {{missing.path}}", data) returned "Hello " in both modes.
C13_Witness ==
    /\ InterpCalled
    /\ ~HasItem
    /\ call.pieces = <<Lit(<<"H", "e", "l", "l", "o", " ">>), Tok(s_missing_path)>>
    /\ ret.interactive = Str(<<"H", "e", "l", "l", "o", " ">>)
    /\ ret.export = Str(<<"H", "e", "l", "l", "o", " ">>)

\* C14: an opening {{ without a closing }} stays in the result as literal
\* text, complete placeholders elsewhere in the string are still
\* interpolated, and no input string makes the interpolation fail.
C14_UnclosedIsLiteral ==
    InterpCalled =>
        \A r \in InterpResults :
            /\ r # Throw
            /\ ~HasItem /\ ~AllComplete => r = Str(ExpectedOutput)

(***************************************************************************)
(* Template nodes, style mapping and path rewriting.                       *)
(***************************************************************************)
s_div == <<"d", "i", "v">>
s_img == <<"i", "m", "g">>
s_background == <<"b", "a", "c", "k", "g", "r", "o", "u", "n", "d">>
s_cursor == <<"c", "u", "r", "s", "o", "r">>
s_grab == <<"g", "r", "a", "b">>
s_default == <<"d", "e", "f", "a", "u", "l", "t">>
s_outline == <<"o", "u", "t", "l", "i", "n", "e">>
s_selected_outline == <<"2", "p", "x", " ", "s", "o", "l", "i", "d", " ", "#", "3", "b", "8", "2", "f", "6">>
s_none == <<"n", "o", "n", "e">>
s_outlineOffset == <<"o", "u", "t", "l", "i", "n", "e", "O", "f", "f", "s", "e", "t">>
s_2px == <<"2", "p", "x">>
s_opacity == <<"o", "p", "a", "c", "i", "t", "y">>
s_position == <<"p", "o", "s", "i", "t", "i", "o", "n">>
s_relative == <<"r", "e", "l", "a", "t", "i", "v", "e">>
s_class_attr == <<"c", "l", "a", "s", "s", "=", "\"">>
s_style_attr == <<"s", "t", "y", "l", "e", "=", "\"">>

Bool(b) == [t |-> "boolean", v |-> b]

\* An ASTNode; an optional field that is not set is undefined.
ASTNode(id, tag, content, repeat, children) ==
    [id |-> id, type |-> <<"t">>, tag |-> tag, class_name |-> Undef,
     styles |-> Undef, content |-> content, data_path |-> Undef,
     children |-> children, draggable |-> Undef, repeat |-> repeat]

\* VOID_ELEMENTS without wbr
Wrong_VOID_ELEMENTS ==
    {<<"a", "r", "e", "a">>,
     <<"b", "a", "s", "e">>,
     <<"b", "r">>,
     <<"c", "o", "l">>,
     <<"e", "m", "b", "e", "d">>,
     <<"h", "r">>,
     <<"i", "m", "g">>,
     <<"i", "n", "p", "u", "t">>,
     <<"l", "i", "n", "k">>,
     <<"m", "e", "t", "a">>,
     <<"p", "a", "r", "a", "m">>,
     <<"s", "o", "u", "r", "c", "e">>,
     <<"t", "r", "a", "c", "k">>}

VOID_ELEMENTS ==
    {<<"a", "r", "e", "a">>,
     <<"b", "a", "s", "e">>,
     <<"b", "r">>,
     <<"c", "o", "l">>,
     <<"e", "m", "b", "e", "d">>,
     <<"h", "r">>,
     <<"i", "m", "g">>,
     <<"i", "n", "p", "u", "t">>,
     <<"l", "i", "n", "k">>,
     <<"m", "e", "t", "a">>,
     <<"p", "a", "r", "a", "m">>,
     <<"s", "o", "u", "r", "c", "e">>,
     <<"t", "r", "a", "c", "k">>,
     <<"w", "b", "r">>}

Editor_VOID_ELEMENTS ==
    {<<"a", "r", "e", "a">>,
     <<"b", "a", "s", "e">>,
     <<"b", "r">>,
     <<"c", "o", "l">>,
     <<"e", "m", "b", "e", "d">>,
     <<"h", "r">>,
     <<"i", "m", "g">>,
     <<"i", "n", "p", "u", "t">>,
     <<"l", "i", "n", "k">>,
     <<"m", "e", "t", "a">>,
     <<"p", "a", "r", "a", "m">>,
     <<"s", "o", "u", "r", "c", "e">>,
     <<"t", "r", "a", "c", "k">>,
     <<"w", "b", "r">>}

\* str.replace(/_([a-z])/g, (_, letter) => letter.toUpperCase())
RECURSIVE toCamelCase(_)
toCamelCase(str) ==
    IF str = <<>> THEN <<>>
    ELSE IF Head(str) = "_" /\ Len(str) >= 2
            /\ \E i \in 1..26 : LowerCase[i] = str[2]
    THEN <<UpperCase[CHOOSE i \in 1..26 : LowerCase[i] = str[2]]>>
            \o toCamelCase(SubSeq(str, 3, Len(str)))
    ELSE <<Head(str)>> \o toCamelCase(Tail(str))

\* result[key] = value on the property list of an object
SetProperty(o, key, value) ==
    IF HasKey(o, key)
    THEN [i \in 1..Len(o) |-> IF o[i].k = key THEN KV(key, value) ELSE o[i]]
    ELSE Append(o, KV(key, value))

RECURSIVE CamelEntries(_, _)
CamelEntries(entries, result) ==
    IF entries = <<>> THEN result
    ELSE CamelEntries(Tail(entries),
            IF Head(entries).v.t \in {"undefined", "null"} THEN result
            ELSE SetProperty(result, toCamelCase(Head(entries).k), Head(entries).v))

\* convertStyles of ASTRenderer.tsx: the property list of the result
convertStyles(styles) ==
    IF Falsy(styles) THEN <<>> ELSE CamelEntries(styles.v, <<>>)

\* key.replace(/_/g, '-')
KebabCase(key) == [i \in 1..Len(key) |-> IF key[i] = "_" THEN "-" ELSE key[i]]

\* convertStylesToCSS of Editor.tsx
convertStylesToCSS(styles) ==
    IF Falsy(styles) THEN <<>>
    ELSE LET kept == SelectSeq(styles.v, LAMBDA e : e.v.t \notin {"undefined", "null"})
         IN join([i \in 1..Len(kept) |->
                     KebabCase(kept[i].k) \o <<":", " ">> \o String(kept[i].v)],
                 <<";", " ">>)

\* s starts with a match of the pattern built from repeatPath, in which a
\* dot matches any character and every other character matches itself
MatchesPathPattern(s, repeatPath) ==
    /\ Len(s) >= Len(repeatPath)
    /\ \A i \in 1..Len(repeatPath) : repeatPath[i] = "." \/ repeatPath[i] = s[i]

\* The length of the match of \{\{<repeatPath>\[\d*\] at the start of s when
\* anyIndex, of \{\{<repeatPath>\[\] otherwise; 0 when there is none
PinMatchLength(s, repeatPath, anyIndex) ==
    LET n == Len(repeatPath)
        d == IF anyIndex THEN DigitPrefix(SubSeq(s, n + 4, Len(s))) ELSE <<>>
    IN IF /\ Len(s) >= n + 4 + Len(d)
          /\ s[1] = "{" /\ s[2] = "{"
          /\ MatchesPathPattern(SubSeq(s, 3, Len(s)), repeatPath)
          /\ s[n + 3] = "["
          /\ s[n + 4 + Len(d)] = "]"
       THEN n + 4 + Len(d)
       ELSE 0

\* content.replace(new RegExp(pattern, 'g'), `{{${repeatPath}[${index}]`)
RECURSIVE PinIndex(_, _, _, _)
PinIndex(s, repeatPath, index, anyIndex) ==
    IF s = <<>> THEN <<>>
    ELSE LET m == PinMatchLength(s, repeatPath, anyIndex)
         IN IF m > 0
            THEN <<"{", "{">> \o repeatPath \o <<"[">> \o NatToString(index) \o <<"]">>
                    \o PinIndex(SubSeq(s, m + 1, Len(s)), repeatPath, index, anyIndex)
            ELSE <<Head(s)>> \o PinIndex(Tail(s), repeatPath, index, anyIndex)

\* data_path.replace(new RegExp(`^${repeatPath}\\[\\d*\\]`), ...)
PinDataPath(dataPath, repeatPath, index) ==
    LET n == Len(repeatPath)
        d == DigitPrefix(SubSeq(dataPath, n + 2, Len(dataPath)))
    IN IF Len(dataPath) >= n + 2 + Len(d) /\ dataPath[n + 2 + Len(d)] = "]"
       THEN repeatPath \o <<"[">> \o NatToString(index) \o <<"]">>
               \o SubSeq(dataPath, n + 3 + Len(d), Len(dataPath))
       ELSE dataPath

RECURSIVE updateNodePaths(_, _, _)
updateNodePaths(node, repeatPath, index) ==
    [node EXCEPT
        !.content =
            IF Falsy(@) THEN @
            ELSE Str(PinIndex(PinIndex(@.v, repeatPath, index, FALSE),
                              repeatPath, index, TRUE)),
        !.data_path =
            IF @.t = "string" /\ startsWith(@.v, repeatPath \o <<"[">>)
            THEN Str(PinDataPath(@.v, repeatPath, index))
            ELSE @,
        !.children =
            [i \in 1..Len(@) |-> updateNodePaths(@[i], repeatPath, index)]]

\* updatedNode of ASTNodeRenderer without the `-${index}` suffix of the id
WrongUpdatedNode(node, index) ==
    updateNodePaths([node EXCEPT !.repeat = Undef], node.repeat.v, index)

\* updatedNode of ASTNodeRenderer: the clone rendered for the item at index
updatedNode(node, index) ==
    updateNodePaths([node EXCEPT !.id = @ \o <<"-">> \o NatToString(index),
                                 !.repeat = Undef],
                    node.repeat.v, index)

\* A clone that keeps the repeat directive
WrongNodeWithoutRepeat(node) == node

\* nodeWithoutRepeat of astToHtml: the clone rendered for every item
nodeWithoutRepeat(node) == [node EXCEPT !.repeat = Undef]

(***************************************************************************)
(* Repeat expansion and the two renderers.                                 *)
(***************************************************************************)
Fragment(elements) == [t |-> "fragment", v |-> elements]

\* allSections.filter((s) => s.type === wanted)
FilterByType(allSections, wanted) ==
    IF allSections.t # "array" THEN Throw
    ELSE IF \E i \in 1..Len(allSections.v) :
               allSections.v[i].t \in {"null", "undefined"}
    THEN Throw
    ELSE Arr(SelectSeq(allSections.v, LAMBDA sec : Member(sec, s_type) = wanted))

\* x || []
OrEmptyArray(x) == IF Falsy(x) THEN Arr(<<>>) ELSE x

\* node.repeat.match(/^sections\.(.+)$/)
SectionTypeMatch(repeat) ==
    startsWith(repeat, s_sections_dot) /\ Len(repeat) > Len(s_sections_dot)

\* repeatData of ASTNodeRenderer filtering by the raw type only
WrongRepeatData(repeat, data) ==
    IF SectionTypeMatch(repeat)
    THEN FilterByType(OrEmptyArray(Member(data, s_sections)),
                      Str(slice(repeat, Len(s_sections_dot))))
    ELSE IF repeat = s_sections
    THEN OrEmptyArray(Member(data, s_sections))
    ELSE OrEmptyArray(getValueByPath(data, repeat))

\* repeatData of ASTNodeRenderer
RepeatData(repeat, data) ==
    IF Member(data, s_sections) = Throw /\ (SectionTypeMatch(repeat) \/ repeat = s_sections)
    THEN Throw
    ELSE IF SectionTypeMatch(repeat)
    THEN LET rawType == slice(repeat, Len(s_sections_dot))
             normalizedType == normalizeType(rawType)
             allSections == OrEmptyArray(Member(data, s_sections))
         IN IF ~Falsy(normalizedType)
            THEN FilterByType(allSections, normalizedType)
            ELSE FilterByType(allSections, Str(rawType))
    ELSE IF repeat = s_sections
    THEN OrEmptyArray(Member(data, s_sections))
    ELSE OrEmptyArray(getValueByPath(data, repeat))

\* The results of rendering several nodes, collected in order; an exception
\* in one of them leaves the whole render.
Collect(results) ==
    IF \E i \in 1..Len(results) : results[i] = Throw THEN Throw
    ELSE Fragment(Flatten([i \in 1..Len(results) |-> results[i].v]))

\* The place of a component in the rendered tree: the ids of the elements
\* around it and its own id (its React key)
PlaceOf(node, ui) == Append(ui.at, node.id)

\* The props and component state seen by the children of the node
Below(ui, node) == [ui EXCEPT !.at = PlaceOf(node, ui)]

\* nodeStyle: the mapped styles under the affordance properties.  isHovered
\* and isDragging are the state of the component at this place.
NodeStyle(node, ui) ==
    LET isHovered == PlaceOf(node, ui) \in ui.hovered
        isDragging == PlaceOf(node, ui) \in ui.dragging
        isSelected == ui.selectedNodeId = Str(node.id)
        s1 == SetProperty(convertStyles(node.styles), s_cursor,
                 IF node.draggable # Bool(FALSE) /\ ui.editable
                 THEN Str(s_grab) ELSE Str(s_default))
        s2 == SetProperty(s1, s_outline,
                 IF isSelected THEN Str(s_selected_outline)
                 ELSE IF isHovered /\ ui.editable
                      THEN Str(<<"1", "p", "x", " ", "d", "a", "s", "h", "e", "d", " ",
                                 "#", "9", "3", "c", "5", "f", "d">>)
                      ELSE Str(s_none))
        s3 == SetProperty(s2, s_outlineOffset, Str(s_2px))
        s4 == SetProperty(s3, s_opacity, IF isDragging THEN Str(<<"0", ".", "5">>) ELSE Num(1))
    IN SetProperty(s4, s_position, Str(s_relative))

INLINE_ELEMENTS ==
    {<<"p">>, <<"s", "p", "a", "n">>, <<"a">>, <<"s", "t", "r", "o", "n", "g">>,
     <<"e", "m">>, <<"b">>, <<"i">>, <<"l", "a", "b", "e", "l">>}

\* dragData without the path of the node
WrongDragData(node) ==
    [id |-> node.id, path |-> EmptyStr, type |-> node.type, content |-> node.content]

\* dragData of handleDragStart
DragData(node) ==
    [id |-> node.id,
     path |-> IF Falsy(node.data_path) THEN EmptyStr ELSE node.data_path,
     type |-> node.type,
     content |-> node.content]

\* dragHint: the elements shown before the content of a hovered node that
\* offers dragging and is not an inline element; none otherwise
DragHint(node, ui) ==
    IF /\ PlaceOf(node, ui) \in ui.hovered
       /\ ui.editable
       /\ node.draggable # Bool(FALSE)
       /\ toLowerCase(node.tag) \notin INLINE_ELEMENTS
    THEN LET text == <<"u62d6", "u62fd", "u5230", "u5bf9", "u8bdd", "u6846",
                       "u4fee", "u6539", "u6b64", "u90e8", "u5206">>
         IN <<[role |-> "hint", tag |-> s_div, id |-> <<>>, className |-> <<>>,
               style |->
                 <<KV(s_position, Str(<<"a", "b", "s", "o", "l", "u", "t", "e">>)),
                   KV(<<"t", "o", "p">>, Str(<<"-", "2", "0", "p", "x">>)),
                   KV(<<"l", "e", "f", "t">>, Str(<<"0">>)),
                   KV(<<"f", "o", "n", "t", "S", "i", "z", "e">>, Str(<<"1", "0", "p", "x">>)),
                   KV(s_background, Str(<<"#", "3", "b", "8", "2", "f", "6">>)),
                   KV(<<"c", "o", "l", "o", "r">>, Str(<<"w", "h", "i", "t", "e">>)),
                   KV(<<"p", "a", "d", "d", "i", "n", "g">>, Str(<<"2", "p", "x", " ", "6", "p", "x">>)),
                   KV(<<"b", "o", "r", "d", "e", "r", "R", "a", "d", "i", "u", "s">>, Str(<<"4", "p", "x">>)),
                   KV(<<"p", "o", "i", "n", "t", "e", "r", "E", "v", "e", "n", "t", "s">>, Str(s_none)),
                   KV(<<"z", "I", "n", "d", "e", "x">>, Num(100)),
                   KV(<<"w", "h", "i", "t", "e", "S", "p", "a", "c", "e">>, Str(<<"n", "o", "w", "r", "a", "p">>))>>,
               draggable |-> FALSE, onDragStart |-> Undef, src |-> Undef,
               text |-> text, children |-> <<>>,
               body |-> <<[t |-> "text", v |-> text]>>]>>
    ELSE <<>>

\* Element showing no text while its component is hovered
WrongElement(node, ui, src, text, children) ==
    [role |-> "node", tag |-> node.tag, id |-> node.id,
     className |-> IF Falsy(node.class_name) THEN <<>> ELSE node.class_name.v,
     style |-> NodeStyle(node, ui),
     draggable |-> node.draggable # Bool(FALSE) /\ ui.editable,
     onDragStart |-> IF node.draggable # Bool(FALSE) /\ ui.editable
                     THEN DragData(node) ELSE Undef,
     src |-> src,
     text |-> IF PlaceOf(node, ui) \in ui.hovered THEN <<>> ELSE text,
     children |-> children,
     body |-> children]

\* The element ASTNodeRenderer returns for a node: id is the node id its
\* click handler reports, onDragStart the payload its drag handler reports
\* when the element offers dragging; body is what the element holds, in
\* order: {resolvedContent}{children}, where an empty string renders
\* nothing.
Element(node, ui, src, text, children) ==
    [role |-> "node", tag |-> node.tag, id |-> node.id,
     className |-> IF Falsy(node.class_name) THEN <<>> ELSE node.class_name.v,
     style |-> NodeStyle(node, ui),
     draggable |-> node.draggable # Bool(FALSE) /\ ui.editable,
     onDragStart |-> IF node.draggable # Bool(FALSE) /\ ui.editable
                     THEN DragData(node) ELSE Undef,
     src |-> src, text |-> text, children |-> children,
     body |-> (IF text = <<>> THEN <<>> ELSE <<[t |-> "text", v |-> text]>>)
              \o children]

\* ASTNodeRenderer: the elements the node renders to, in order
RECURSIVE ASTNodeRenderer(_, _, _, _)
ASTNodeRenderer(node, data, repeatItem, ui) ==
    LET resolvedContent == resolveContent(node.content, data, repeatItem)
        repeatData == RepeatData(node.repeat.v, data)
        children ==
            Collect([i \in 1..Len(node.children) |->
                        ASTNodeRenderer(node.children[i], data, repeatItem,
                                        Below(ui, node))])
        isVoidElement == toLowerCase(node.tag) \in VOID_ELEMENTS
        imgSrc == IF resolvedContent.v # <<>> THEN resolvedContent
                  ELSE IF Falsy(node.styles) THEN Undef
                  ELSE PropertyOf(node.styles, s_background)
    IN IF resolvedContent = Throw THEN Throw
       ELSE IF ~Falsy(node.repeat) /\ repeatData = Throw THEN Throw
       ELSE IF ~Falsy(node.repeat) /\ repeatData.t = "array" /\ Len(repeatData.v) > 0
       THEN Collect([i \in 1..Len(repeatData.v) |->
               ASTNodeRenderer(updatedNode(node, i - 1), data, repeatData.v[i], ui)])
       ELSE IF isVoidElement
       THEN IF toLowerCase(node.tag) = s_img
            THEN IF Falsy(imgSrc) THEN Fragment(<<>>)
                 ELSE Fragment(DragHint(node, ui)
                                  \o <<Element(node, ui, imgSrc, <<>>, <<>>)>>)
            ELSE Fragment(DragHint(node, ui)
                             \o <<Element(node, ui, Undef, <<>>, <<>>)>>)
       ELSE IF children = Throw THEN Throw
       ELSE Fragment(<<[Element(node, ui, Undef, resolvedContent.v, children.v)
                           EXCEPT !.body = DragHint(node, ui) \o @]>>)

\* repeatData of astToHtml: a directive that is neither sections.<X> nor
\* sections leaves it empty
Editor_RepeatData(repeat, data) ==
    IF Member(data, s_sections) = Throw /\ (SectionTypeMatch(repeat) \/ repeat = s_sections)
    THEN Throw
    ELSE IF SectionTypeMatch(repeat)
    THEN LET rawType == slice(repeat, Len(s_sections_dot))
             normalizedType == Editor_normalizeType(rawType)
             allSections == OrEmptyArray(Member(data, s_sections))
         IN IF ~Falsy(normalizedType)
            THEN FilterByType(allSections, normalizedType)
            ELSE FilterByType(allSections, Str(rawType))
    ELSE IF repeat = s_sections
    THEN OrEmptyArray(Member(data, s_sections))
    ELSE Arr(<<>>)

\* repeatData.length > 0
HasItems(repeatData) ==
    \/ repeatData.t \in {"array", "string"} /\ Len(repeatData.v) > 0
    \/ /\ repeatData.t = "object"
       /\ PropertyOf(repeatData, s_length).t = "number"
       /\ PropertyOf(repeatData, s_length).v > 0

\* The strings joined in reverse order
WrongJoinLines(results) ==
    IF \E i \in 1..Len(results) : results[i] = Throw THEN Throw
    ELSE Str(join([i \in 1..Len(results) |-> results[Len(results) + 1 - i].v], <<"\n">>))

\* strings.join('\n'), an exception in one of them leaving the whole call
JoinLines(results) ==
    IF \E i \in 1..Len(results) : results[i] = Throw THEN Throw
    ELSE Str(join([i \in 1..Len(results) |-> results[i].v], <<"\n">>))

\* The attribute string of astToHtml
AttrStr(node) ==
    LET styleStr == convertStylesToCSS(node.styles)
        attrs == (IF Falsy(node.class_name) THEN <<>>
                  ELSE <<s_class_attr \o String(node.class_name) \o <<"\"">>>>)
                 \o (IF styleStr = <<>> THEN <<>>
                     ELSE <<s_style_attr \o styleStr \o <<"\"">>>>)
    IN IF Len(attrs) > 0 THEN <<" ">> \o join(attrs, <<" ">>) ELSE <<>>

\* astToHtml: the markup string of the node
RECURSIVE astToHtml(_, _, _)
astToHtml(node, data, repeatItem) ==
    LET repeatData == Editor_RepeatData(node.repeat.v, data)
        tag == IF node.tag = <<>> THEN s_div ELSE node.tag
        isVoidElement == toLowerCase(tag) \in Editor_VOID_ELEMENTS
        attrStr == AttrStr(node)
        content == Editor_resolveContent(node.content, data, repeatItem)
        childrenHtml ==
            JoinLines([i \in 1..Len(node.children) |->
                          astToHtml(node.children[i], data, repeatItem)])
    IN IF ~Falsy(node.repeat)
       THEN IF repeatData = Throw THEN Throw
            ELSE IF HasItems(repeatData)
            THEN IF repeatData.t # "array" THEN Throw
                 ELSE JoinLines([i \in 1..Len(repeatData.v) |->
                         astToHtml(nodeWithoutRepeat(node), data, repeatData.v[i])])
            ELSE EmptyStr
       ELSE IF content = Throw \/ childrenHtml = Throw THEN Throw
       ELSE IF isVoidElement
       THEN Str(<<"<">> \o tag \o attrStr \o <<" ", "/", ">">>)
       ELSE Str(<<"<">> \o tag \o attrStr \o <<">">> \o content.v \o childrenHtml.v
                \o <<"<", "/">> \o tag \o <<">">>)

(***************************************************************************)
(* The two renderers applied to bounded templates and data.                *)
(***************************************************************************)
s_avatar == <<"a", "v", "a", "t", "a", "r">>
s_x_png == <<"x", ".", "p", "n", "g">>
s_b_png == <<"b", ".", "p", "n", "g">>

\* The sections of DataTwo under a profile that has an avatar.
DataAvatar ==
    Obj(<<KV(s_profile, Obj(<<KV(s_name, Str(<<"N">>)), KV(s_avatar, Str(s_x_png))>>)),
          KV(s_sections, Arr(<<Sec_e1, Sec_k1, Sec_e2>>))>>)

RenderData == {DataEmpty, DataTwo, DataMixed, DataAvatar}

RepeatDirectives ==
    {Undef,
     Str(s_sections),
     Str(s_sections_dot \o s_experience),
     \* sections.Skills
     Str(s_sections_dot \o <<"S">> \o Tail(s_skills)),
     Str(s_sections_dot \o s_zh_projhist),
     Str(s_sections_dot \o s_award),
     \* sections.Award
     Str(s_sections_dot \o <<"A">> \o Tail(s_award)),
     Str(s_awards),
     Str(s_profile)}

SubjectContents ==
    {Undef,
     Str(Placeholder(s_item_dot \o s_content_dot \o s_title)),
     Str(Placeholder(s_id)),
     Str(Placeholder(s_profile \o <<".">> \o s_avatar))}

\* The k-th child of the subject node
Leaf(k) ==
    ASTNode(<<"c">> \o NatToString(k), <<"p">>,
            Str(Placeholder(s_item_dot \o s_id)), Undef, <<>>)

\* The node under test: <tag> with a repeat directive, a content, n children
\* and possibly a background style.
Subject(tag, repeat, content, n, background) ==
    [ASTNode(<<"n">>, tag, content, repeat, [k \in 1..n |-> Leaf(k)])
        EXCEPT !.styles = IF background THEN Obj(<<KV(s_background, Str(s_b_png))>>)
                          ELSE Undef]

Subjects ==
    {Subject(tag, repeat, content, n, background) :
        tag \in {s_div, s_img}, repeat \in RepeatDirectives,
        content \in SubjectContents, n \in 0..MaxChildren,
        background \in BOOLEAN}

SiblingBefore == ASTNode(<<"a">>, <<"p">>, Str(<<"a">>), Undef, <<>>)
SiblingAfter == ASTNode(<<"b">>, <<"p">>, Str(<<"b">>), Undef, <<>>)

\* A root that holds the given nodes as its children
Root(children) == ASTNode(<<"r">>, s_div, Undef, Undef, children)

\* The props of the mounted ASTRenderer and the state of its components:
\* nothing selected, editable, no component hovered or dragged.
DefaultUI ==
    [selectedNodeId |-> Undef, editable |-> TRUE,
     hovered |-> {}, dragging |-> {}, at |-> <<>>]

\* The template is the subject itself or the subject between two siblings.
InitRender ==
    /\ \E subject \in Subjects, d \in RenderData, nested \in BOOLEAN :
          call = [fn |-> "render",
                  node |-> IF nested
                           THEN Root(<<SiblingBefore, subject, SiblingAfter>>)
                           ELSE subject,
                  subject |-> subject, nested |-> nested,
                  data |-> d, ui |-> DefaultUI]
    /\ ret = NoResult

\* ASTRenderer mounts the template root.
RenderInteractive ==
    /\ call.fn = "render"
    /\ ret.interactive = Pending
    /\ ret' = [ret EXCEPT !.interactive =
                  ASTNodeRenderer(call.node, call.data, Undef, call.ui)]
    /\ UNCHANGED call

\* handleExportHTML renders the template root to markup.
ExportHTML ==
    /\ call.fn = "render"
    /\ ret.export = Pending
    /\ ret' = [ret EXCEPT !.export = astToHtml(call.node, call.data, Undef)]
    /\ UNCHANGED call

NextRender == RenderInteractive \/ ExportHTML

SpecRender == InitRender /\ [][NextRender]_vars

(***************************************************************************)
(* Claims about repeat expansion and rendering.                            *)
(***************************************************************************)
RenderCalled == call.fn = "render"
InteractiveDone == RenderCalled /\ ret.interactive # Pending
ExportDone == RenderCalled /\ ret.export # Pending

HasRepeat == RenderCalled /\ ~Falsy(call.subject.repeat)

\* The type a sections.<X> directive selects, as the specification states
\* it: normalize(X) when that is a canonical kind, X itself otherwise.
ClaimedType(x) ==
    LET ks == KindsMatching(SECTION_TYPE_MAP, x)
    IN IF ks = {} THEN x ELSE CHOOSE k \in ks : TRUE

\* The item sequence a repeat directive selects, as the specification
\* states it.
ClaimedItems(repeat, data) ==
    LET sections == PropertyOf(data, s_sections).v
        resolved == getValueByPath(data, repeat)
    IN IF SectionTypeMatch(repeat)
       THEN SelectSeq(sections,
               LAMBDA sec : PropertyOf(sec, s_type)
                            = Str(ClaimedType(slice(repeat, Len(s_sections_dot)))))
       ELSE IF repeat = s_sections THEN sections
       ELSE IF resolved.t = "array" THEN resolved.v
       ELSE <<>>

SelectedItems == ClaimedItems(call.subject.repeat.v, call.data)

\* The clone of the repeat node rendered for the item of index k
InteractiveInstance(k) ==
    updateNodePaths([call.subject EXCEPT !.id = @ \o <<"-">> \o NatToString(k),
                                         !.repeat = Undef],
                    call.subject.repeat.v, k)
ExportInstance == [call.subject EXCEPT !.repeat = Undef]

\* One render per item, in item order, the k-th with the k-th item bound
InstancesView(items) ==
    Flatten([k \in 1..Len(items) |->
        ASTNodeRenderer(InteractiveInstance(k - 1), call.data, items[k], call.ui).v])
InstancesHtml(items) ==
    join([k \in 1..Len(items) |-> astToHtml(ExportInstance, call.data, items[k]).v],
         <<"\n">>)

\* What the node under test contributed to the interactive output
SubjectView ==
    IF call.nested
    THEN SubSeq(ret.interactive.v[1].children, 2,
                Len(ret.interactive.v[1].children) - 1)
    ELSE ret.interactive.v

\* The markup of the whole template when the node under test contributes x
HtmlAround(x) ==
    IF call.nested
    THEN <<"<", "d", "i", "v", ">", "<", "p", ">", "a", "<", "/", "p", ">">> \o <<"\n">> \o x \o <<"\n">>
            \o <<"<", "p", ">", "b", "<", "/", "p", ">", "<", "/", "d", "i", "v", ">">>
    ELSE x

\* The ids of the instances of the node under test
InstanceIds == {call.subject.id \o <<"-">> \o NatToString(k) : k \in 0..9}

\* C2: a node whose repeat directive selects an empty item sequence produces
\* no output in either mode, and its siblings and ancestors render as if the
\* node were absent.
C2_EmptyRepeatRendersNothing ==
    HasRepeat /\ SelectedItems = <<>> =>
        /\ InteractiveDone =>
              ret.interactive =
                  IF call.nested
                  THEN ASTNodeRenderer(Root(<<SiblingBefore, SiblingAfter>>),
                                       call.data, Undef, call.ui)
                  ELSE Fragment(<<>>)
        /\ ExportDone =>
              ret.export =
                  IF call.nested
                  THEN astToHtml(Root(<<SiblingBefore, SiblingAfter>>), call.data, Undef)
                  ELSE EmptyStr

\* s occurs in t
Occurs(s, t) == \E i \in 0..(Len(t) - Len(s)) : SubSeq(t, i + 1, i + Len(s)) = s

\* The source of an img node as the specification states it: its
\* interpolated content, else its background style
ClaimedImgSrc(node, data) ==
    LET content == resolveContent(node.content, data, Undef)
    IN IF content.v # <<>> THEN content
       ELSE IF Falsy(node.styles) THEN Undef
       ELSE PropertyOf(node.styles, s_background)

\* C3: an img node takes its source from its interpolated content, else
\* from its background style; with neither it emits nothing, otherwise it
\* emits a self-closing image element whose source is that value.
C3_ImgSource ==
    RenderCalled /\ call.subject.tag = s_img /\ Falsy(call.subject.repeat) =>
        LET src == ClaimedImgSrc(call.subject, call.data)
        IN /\ InteractiveDone =>
                 IF Falsy(src) THEN SubjectView = <<>>
                 ELSE /\ Len(SubjectView) = 1
                      /\ SubjectView[1].tag = s_img
                      /\ SubjectView[1].src = src
                      /\ SubjectView[1].text = <<>>
                      /\ SubjectView[1].children = <<>>
           /\ ExportDone =>
                 IF Falsy(src) THEN ret.export = Str(HtmlAround(<<>>))
                 ELSE \E markup \in {ret.export.v} :
                         /\ Occurs(<<"<", "i", "m", "g">>, markup)
                         /\ Occurs(<<" ", "s", "r", "c", "=", "\"">> \o src.v \o <<"\"">>, markup)
                         /\ ~Occurs(<<"<", "/", "i", "m", "g", ">">>, markup)

GenericDirective ==
    /\ HasRepeat
    /\ ~SectionTypeMatch(call.subject.repeat.v)
    /\ call.subject.repeat.v # s_sections

\* C4: a repeat directive that is neither "sections" nor sections.<X> is
\* resolved as a path against data in both modes; an array is iterated, one
\* output per element in order, and anything else gives no output.
C4_GenericRepeatPath ==
    GenericDirective =>
        /\ InteractiveDone => SubjectView = InstancesView(SelectedItems)
        /\ ExportDone => ret.export = Str(HtmlAround(InstancesHtml(SelectedItems)))

\* C5: for repeat = sections.<X> the iterated items are exactly the
\* sections, in their order, whose stored type equals normalize(X) when
\* that is a canonical kind and X itself otherwise.
C5_SectionTypeFilter ==
    HasRepeat /\ SectionTypeMatch(call.subject.repeat.v) =>
        /\ InteractiveDone =>
              IF SelectedItems = <<>>
              THEN \A i \in 1..Len(SubjectView) : SubjectView[i].id \notin InstanceIds
              ELSE SubjectView = InstancesView(SelectedItems)
        /\ ExportDone => ret.export = Str(HtmlAround(InstancesHtml(SelectedItems)))

\* sections.Skills over [k2 (type skills), a1 (type award), k1 (type skill)]
\* rendered k1 alone.
C5_Witness ==
    /\ RenderCalled
    /\ ~call.nested
    /\ call.data = DataMixed
    /\ call.subject = Subject(s_div, Str(s_sections_dot \o <<"S">> \o Tail(s_skills)),
                              Str(Placeholder(s_id)), 0, FALSE)
    /\ ret.interactive # Pending
    /\ Len(ret.interactive.v) = 1
    /\ ret.interactive.v[1].text = <<"k", "1">>
    /\ ret.export = Str(<<"<", "d", "i", "v", ">", "k", "1", "<", "/", "d", "i", "v", ">">>)

\* C6: rendering a repeat node over n >= 1 items yields n sibling outputs
\* in item order, the k-th (and its descendants) interpolated with the k-th
\* item; {{item.content.title}} over the experience sections A and B yields
\* A then B.
C6_OneOutputPerItem ==
    HasRepeat /\ Len(SelectedItems) >= 1 =>
        /\ InteractiveDone =>
              /\ SubjectView = InstancesView(SelectedItems)
              /\ call.subject.tag # s_img =>
                    /\ Len(SubjectView) = Len(SelectedItems)
                    /\ \A k \in 1..Len(SubjectView) :
                          SubjectView[k].text =
                              resolveContent(call.subject.content, call.data,
                                             SelectedItems[k]).v
        /\ ExportDone => ret.export = Str(HtmlAround(InstancesHtml(SelectedItems)))
        /\ /\ call.subject = Subject(s_div, Str(s_sections_dot \o s_experience),
                  Str(Placeholder(s_item_dot \o s_content_dot \o s_title)), 0, FALSE)
           /\ call.data = DataTwo
           /\ ~call.nested
           => /\ InteractiveDone =>
                    [k \in 1..Len(ret.interactive.v) |-> ret.interactive.v[k].text]
                        = <<<<"A">>, <<"B">>>>
              /\ ExportDone =>
                    ret.export = Str(<<"<", "d", "i", "v", ">", "A", "<", "/", "d", "i", "v", ">">> \o <<"\n">>
                                     \o <<"<", "d", "i", "v", ">", "B", "<", "/", "d", "i", "v", ">">>)

(***************************************************************************)
(* Expansion of a repeat node into the instance of one item.               *)
(*                                                                         *)
(* Templates are written from blueprints, so that the references to the    *)
(* repeat path in contents and data paths are known by construction.       *)
(***************************************************************************)
s_other == <<"o", "t", "h", "e", "r">>

\* A content piece {{<path>[<idx>]<rest>}} and a data path <path>[<idx>]<rest>
\* where path is the repeat path ("self"), another path ("other") or the
\* repeat path with every dot replaced by X ("wild")
Ref(path, idx, rest) == [kind |-> "ref", path |-> path, idx |-> idx, rest |-> rest]

SpellPath(path, repeatPath) ==
    CASE path = "self" -> repeatPath
      [] path = "other" -> s_other
      [] path = "wild" -> [i \in 1..Len(repeatPath) |->
                              IF repeatPath[i] = "." THEN "X" ELSE repeatPath[i]]

SpellRef(r, repeatPath) ==
    IF r.kind = "ref"
    THEN SpellPath(r.path, repeatPath) \o <<"[">> \o r.idx \o <<"]">> \o r.rest
    ELSE r.text

\* The node a blueprint stands for
RECURSIVE Build(_, _)
Build(bp, repeatPath) ==
    [ASTNode(bp.id, s_div,
             IF bp.content = <<>> THEN Undef
             ELSE Str(Flatten([i \in 1..Len(bp.content) |->
                     IF bp.content[i].kind = "ref"
                     THEN Placeholder(SpellRef(bp.content[i], repeatPath))
                     ELSE bp.content[i].text])),
             IF bp.top THEN Str(repeatPath) ELSE Undef,
             [i \in 1..Len(bp.children) |-> Build(bp.children[i], repeatPath)])
        EXCEPT !.data_path = IF bp.data_path = <<>> THEN Undef
                             ELSE Str(SpellRef(bp.data_path[1], repeatPath))]

Blueprint(id, top, content, dataPath, children) ==
    [id |-> id, top |-> top, content |-> content, data_path |-> dataPath,
     children |-> children]

\* Descendants down to the given depth: a leaf and a branch over the rest
RECURSIVE Descendants(_)
Descendants(depth) ==
    IF depth = 0 THEN <<>>
    ELSE <<Blueprint(<<"l">> \o NatToString(depth), FALSE,
                     <<Ref("self", <<>>, <<".", "i", "d">>)>>,
                     <<Ref("self", <<"7">>, <<".", "x">>)>>, <<>>),
           Blueprint(<<"b">> \o NatToString(depth), FALSE,
                     <<Lit(<<"T">>), Ref("self", <<"1">>, <<".", "t">>)>>,
                     <<>>, Descendants(depth - 1))>>

ContentBlueprints ==
    {<<>>,
     <<Ref("self", <<>>, <<".", "i", "d">>)>>,
     <<Ref("self", <<"3">>, <<".", "i", "d">>)>>,
     <<Lit(<<"T", ":">>), Ref("self", <<>>, <<".", "a">>), Lit(<<" ">>),
       Ref("self", <<"1", "2">>, <<".", "b">>)>>,
     <<Ref("other", <<>>, <<".", "i", "d">>)>>,
     <<Ref("wild", <<>>, <<".", "i", "d">>)>>,
     <<Lit(Placeholder(s_item_dot \o s_id))>>}

DataPathBlueprints ==
    {<<>>,
     <<Ref("self", <<>>, <<".", "t">>)>>,
     <<Ref("self", <<"2">>, <<".", "t">>)>>,
     <<Ref("other", <<"0">>, <<>>)>>,
     <<Lit(s_profile_name)>>}

ExpandPaths == {s_sections, s_sections_dot \o s_experience, s_awards}

InitExpand ==
    /\ \E c \in ContentBlueprints, dp \in DataPathBlueprints,
          depth \in 0..MaxDepth, rp \in ExpandPaths, index \in 0..MaxIndex :
          call = [fn |-> "expand",
                  blueprint |-> Blueprint(<<"n">>, TRUE, c, dp, Descendants(depth)),
                  repeatPath |-> rp,
                  node |-> Build(Blueprint(<<"n">>, TRUE, c, dp, Descendants(depth)), rp),
                  index |-> index]
    /\ ret = NoResult

\* ASTNodeRenderer builds the instance of the item at call.index.
ExpandInteractive ==
    /\ call.fn = "expand"
    /\ ret.interactive = Pending
    /\ ret' = [ret EXCEPT !.interactive = updatedNode(call.node, call.index)]
    /\ UNCHANGED call

\* astToHtml builds the instance of the item at call.index; it iterates
\* for the directives sections.<X> and sections only.
ExpandExport ==
    /\ call.fn = "expand"
    /\ ret.export = Pending
    /\ SectionTypeMatch(call.repeatPath) \/ call.repeatPath = s_sections
    /\ ret' = [ret EXCEPT !.export = nodeWithoutRepeat(call.node)]
    /\ UNCHANGED call

NextExpand == ExpandInteractive \/ ExpandExport

SpecExpand == InitExpand /\ [][NextExpand]_vars

(***************************************************************************)
(* Claims about the instance of a repeat node.                             *)
(***************************************************************************)
ExpandCalled == call.fn = "expand"
ExpandResults == {ret.interactive, ret.export} \ {Pending}

\* A reference pinned to the index when it names the repeat path with an
\* empty or numeric index
PinnedRef(r, repeatPath, index) ==
    IF /\ r.kind = "ref"
       /\ SpellPath(r.path, repeatPath) = repeatPath
       /\ \A i \in 1..Len(r.idx) : r.idx[i] \in DigitSet
    THEN [r EXCEPT !.idx = NatToString(index)]
    ELSE r

\* The blueprint with every reference, at every depth, pinned
RECURSIVE Pinned(_, _, _)
Pinned(bp, repeatPath, index) ==
    [bp EXCEPT
        !.content = [i \in 1..Len(@) |-> PinnedRef(@[i], repeatPath, index)],
        !.data_path = [i \in 1..Len(@) |-> PinnedRef(@[i], repeatPath, index)],
        !.children = [i \in 1..Len(@) |-> Pinned(@[i], repeatPath, index)]]

ClaimedInstance == Build(Pinned(call.blueprint, call.repeatPath, call.index),
                         call.repeatPath)

\* C15: in the instance for (item, index) every descendant at every depth
\* has each {{<repeatPath>[] and {{<repeatPath>[N] of its content rewritten
\* to {{<repeatPath>[index] and each data_path beginning with <repeatPath>[
\* rewritten to begin with <repeatPath>[index]; the shape of the tree and
\* every other field are unchanged.
C15_PathsPinnedEverywhere ==
    ExpandCalled =>
        \A r \in ExpandResults :
            [r EXCEPT !.id = call.node.id, !.repeat = call.node.repeat]
                = ClaimedInstance

\* C16: the instance for (item, index) of a repeat node with id I has the
\* id I-<index> and no repeat directive.
C16_InstanceIdAndRepeat ==
    ExpandCalled /\ ret.interactive # Pending =>
        /\ ret.interactive.id = call.node.id \o <<"-">> \o NatToString(call.index)
        /\ ret.interactive.repeat = Undef

\* The instance of node n for index 2 has the id n-2 and no repeat directive.
C16_Witness ==
    /\ ExpandCalled
    /\ call.index = 2
    /\ call.node.repeat = Str(s_sections_dot \o s_experience)
    /\ ret.interactive # Pending
    /\ ret.interactive.id = <<"n", "-", "2">>
    /\ ret.interactive.repeat = Undef

(***************************************************************************)
(* The two renderers applied to a tree with nested repeat nodes.           *)
(*                                                                         *)
(*   r  <rootTag>  "Q{{id}}"                                               *)
(*     O  div   repeat r1   "{{id}}"                                       *)
(*       L  span            "{{item.id}}"                                  *)
(*       N  div   repeat r2   "{{id}}"                                     *)
(*         M  em              "{{id}}"                                     *)
(*     S  p                 "{{id}}"                                       *)
(***************************************************************************)
s_span == <<"s", "p", "a", "n">>
s_em == <<"e", "m">>

TreeTags ==
    VOID_ELEMENTS
    \cup {<<"B", "R">>, <<"I", "m", "g">>, <<"W", "b", "r">>}
    \cup {s_div, s_span, <<"D", "I", "V">>}

TreeTemplate(rootTag, r1, r2) ==
    LET probe == Str(Placeholder(s_id))
        M == ASTNode(<<"M">>, s_em, probe, Undef, <<>>)
        N == ASTNode(<<"N">>, s_div, probe, r2, <<M>>)
        L == ASTNode(<<"L">>, s_span, Str(Placeholder(s_item_dot \o s_id)), Undef, <<>>)
        O == ASTNode(<<"O">>, s_div, probe, r1, <<L, N>>)
        S == ASTNode(<<"S">>, <<"p">>, probe, Undef, <<>>)
    IN ASTNode(<<"r">>, rootTag, Str(<<"Q">> \o Placeholder(s_id)), Undef, <<O, S>>)

OuterRepeats ==
    {Undef, Str(s_sections), Str(s_sections_dot \o s_experience),
     Str(s_sections_dot \o s_project)}
InnerRepeats ==
    {Undef, Str(s_sections), Str(s_sections_dot \o s_skill),
     Str(s_sections_dot \o s_project)}

InitTree ==
    /\ \E rootTag \in TreeTags, r1 \in OuterRepeats, r2 \in InnerRepeats,
          d \in {DataEmpty, DataTwo, DataMixed} :
          call = [fn |-> "render", node |-> TreeTemplate(rootTag, r1, r2),
                  r1 |-> r1, r2 |-> r2, data |-> d, ui |-> DefaultUI]
    /\ ret = NoResult

SpecTree == InitTree /\ [][NextRender]_vars

(***************************************************************************)
(* Claims about the repeat item of descendants, void elements and the      *)
(* order of content and children.                                          *)
(***************************************************************************)
\* The items a directive of the tree selects; none without a directive
TreeItems(repeat) ==
    IF repeat = Undef THEN <<>> ELSE ClaimedItems(repeat.v, call.data)

\* The text of {{id}} and {{item.id}} under the given item
IdOf(item) == IF item = Undef THEN <<>> ELSE PropertyOf(item, s_id).v

\* id is <base>-<k> for a one-digit k
IsInstanceOf(id, base) ==
    Len(id) = 3 /\ id[1] = base /\ id[2] = "-" /\ id[3] \in DigitSet

\* The item an element is interpolated with when bound is the item of the
\* element around it: an instance of O or N binds its own item
BoundItem(e, bound) ==
    IF IsInstanceOf(e.id, "O") THEN TreeItems(call.r1)[DigitVal(e.id[3]) + 1]
    ELSE IF IsInstanceOf(e.id, "N") THEN TreeItems(call.r2)[DigitVal(e.id[3]) + 1]
    ELSE bound

\* Every element of the list, and every element below it, shows the id of
\* the item bound at its place
RECURSIVE TextsFollowItem(_, _)
TextsFollowItem(elements, bound) ==
    \A i \in 1..Len(elements) :
        LET e == elements[i]
            item == BoundItem(e, bound)
        IN /\ e.text = (IF e.id = <<"r">> THEN <<"Q">> ELSE <<>>) \o IdOf(item)
           /\ TextsFollowItem(e.children, item)

\* The markup of a non-void element without attributes
Markup(tag, content, childrenHtml) ==
    <<"<">> \o tag \o <<">">> \o content \o join(childrenHtml, <<"\n">>)
        \o <<"<", "/">> \o tag \o <<">">>

\* The markup of N and of O for the items the claim binds
ClaimedHtmlN(outer) ==
    LET one(item) == Markup(s_div, IdOf(item), <<Markup(s_em, IdOf(item), <<>>)>>)
        items == TreeItems(call.r2)
    IN IF call.r2 = Undef THEN one(outer)
       ELSE join([j \in 1..Len(items) |-> one(items[j])], <<"\n">>)
ClaimedHtmlO ==
    LET one(item) == Markup(s_div, IdOf(item),
                            <<Markup(s_span, IdOf(item), <<>>), ClaimedHtmlN(item)>>)
        items == TreeItems(call.r1)
    IN IF call.r1 = Undef THEN one(Undef)
       ELSE join([k \in 1..Len(items) |-> one(items[k])], <<"\n">>)

IsTree == call.fn = "render" /\ "r1" \in DOMAIN call
RootIsVoid == toLowerCase(call.node.tag) \in
    {<<"a", "r", "e", "a">>,
     <<"b", "a", "s", "e">>,
     <<"b", "r">>,
     <<"c", "o", "l">>,
     <<"e", "m", "b", "e", "d">>,
     <<"h", "r">>,
     <<"i", "m", "g">>,
     <<"i", "n", "p", "u", "t">>,
     <<"l", "i", "n", "k">>,
     <<"m", "e", "t", "a">>,
     <<"p", "a", "r", "a", "m">>,
     <<"s", "o", "u", "r", "c", "e">>,
     <<"t", "r", "a", "c", "k">>,
     <<"w", "b", "r">>}

\* C17: the item a repeat node binds reaches every descendant of the
\* instance unchanged, is replaced only inside a descendant that carries a
\* repeat directive of its own, and nodes under no repeat node are
\* interpolated with no item, also when a nested directive selects nothing.
C17_ItemReachesDescendants ==
    IsTree /\ ~RootIsVoid =>
        /\ ret.interactive # Pending =>
              /\ ret.interactive # Throw
              /\ TextsFollowItem(ret.interactive.v, Undef)
        /\ ret.export # Pending =>
              ret.export = Str(Markup(call.node.tag, <<"Q">>,
                                      <<ClaimedHtmlO, Markup(<<"p">>, <<>>, <<>>)>>))

\* Under the instances of e1 and e2 the inner repeat over the skill section
\* k1 rendered k1, and the leaf beside it the outer item.
C17_Witness ==
    /\ IsTree
    /\ call.node.tag = s_div
    /\ call.data = DataTwo
    /\ call.r1 = Str(s_sections_dot \o s_experience)
    /\ call.r2 = Str(s_sections_dot \o s_skill)
    /\ ret.interactive # Pending
    /\ ret.export # Pending
    /\ LET O == ret.interactive.v[1].children
       IN /\ [k \in 1..Len(O) |-> O[k].text] = <<<<"e", "1">>, <<"e", "2">>, <<>>>>
          /\ [k \in 1..2 |-> O[2].children[k].text] = <<<<"e", "2">>, <<"k", "1">>>>
          /\ O[2].children[2].children[1].text = <<"k", "1">>

\* Every element of the list and below it
RECURSIVE AllElements(_)
AllElements(elements) ==
    UNION {{elements[i]} \cup AllElements(elements[i].children) :
              i \in 1..Len(elements)}

\* C18: a node whose tag, compared case-insensitively, is a void element is
\* output in both modes without its interpolated content, without the
\* output of its children and without a closing element; for any other tag
\* content and children are rendered.
C18_VoidElementsAreEmpty ==
    IsTree =>
        /\ ret.interactive # Pending =>
              /\ ret.interactive # Throw
              /\ \A e \in AllElements(ret.interactive.v) :
                    e.id = <<"r">> =>
                        IF RootIsVoid THEN e.body = <<>>
                        ELSE /\ e.body # <<>>
                             /\ e.body[1] = [t |-> "text", v |-> <<"Q">>]
                             /\ \E i \in 1..Len(e.body) : e.body[i] \in AllElements(<<e>>) \ {e}
        /\ ret.export # Pending =>
              IF RootIsVoid
              THEN /\ ret.export = Str(<<"<">> \o call.node.tag \o <<" ", "/", ">">>)
                   /\ ~Occurs(<<"Q">>, ret.export.v)
                   /\ ~Occurs(<<"<", "/">>, ret.export.v)
              ELSE /\ Occurs(<<">", "Q">>, ret.export.v)
                   /\ Occurs(<<"<", "p", ">", "<", "/", "p", ">">>, ret.export.v)
                   /\ Occurs(<<"<", "/">> \o call.node.tag \o <<">">>, ret.export.v)

\* The root with the tag BR rendered to an empty element and to "<BR />".
C18_Witness ==
    /\ IsTree
    /\ call.node.tag = <<"B", "R">>
    /\ call.data = DataTwo
    /\ ret.interactive # Pending
    /\ Len(ret.interactive.v) = 1
    /\ ret.interactive.v[1].body = <<>>
    /\ ret.export = Str(<<"<", "B", "R", " ", "/", ">">>)

\* C19: the output of a non-void node is the opening element, the
\* interpolated content, the outputs of its children in node.children
\* order, and the closing element.
C19_ContentThenChildren ==
    IsTree /\ ~RootIsVoid =>
        LET kids == call.node.children
            views == [i \in 1..Len(kids) |->
                         ASTNodeRenderer(kids[i], call.data, Undef, call.ui).v]
            markups == [i \in 1..Len(kids) |-> astToHtml(kids[i], call.data, Undef).v]
        IN /\ ret.interactive # Pending =>
                 /\ Len(ret.interactive.v) = 1
                 /\ ret.interactive.v[1].tag = call.node.tag
                 /\ ret.interactive.v[1].body
                        = <<[t |-> "text", v |-> <<"Q">>]>> \o Flatten(views)
           /\ ret.export # Pending =>
                 ret.export = Str(Markup(call.node.tag, <<"Q">>, markups))

\* A span root over the two experience sections rendered Q, the two
\* instances of O and then S.
C19_Witness ==
    /\ IsTree
    /\ call.node.tag = s_span
    /\ call.data = DataTwo
    /\ call.r1 = Str(s_sections_dot \o s_experience)
    /\ call.r2 = Undef
    /\ ret.interactive # Pending
    /\ ret.export # Pending
    /\ [i \in 2..4 |-> ret.interactive.v[1].body[i].id]
          = [i \in 2..4 |-> <<<<"O", "-", "0">>, <<"O", "-", "1">>, <<"S">>>>[i - 1]]
    /\ ret.interactive.v[1].body[1].v = <<"Q">>

(***************************************************************************)
(* The two style mappers applied to bounded style maps.                    *)
(***************************************************************************)
StyleKeys ==
    {<<"f", "o", "n", "t", "_", "s", "i", "z", "e">>, <<"f", "o", "n", "t", "S", "i", "z", "e">>, <<"c", "o", "l", "o", "r">>, <<"z", "_", "i", "n", "d", "e", "x">>}
StyleValues == {Str(<<"1">>), Str(<<"2">>), Undef, Null}

\* Style maps of up to MaxStyles entries with distinct keys, in every order
StyleMaps ==
    UNION {{[i \in 1..n |-> KV(ks[i], vs[i])] :
               ks \in {f \in [1..n -> StyleKeys] :
                          \A i, j \in 1..n : i # j => f[i] # f[j]},
               vs \in [1..n -> StyleValues]} : n \in 0..MaxStyles}

InitStyle ==
    /\ \E entries \in StyleMaps :
          call = [fn |-> "mapStyles", styles |-> Obj(entries)]
    /\ ret = NoResult

\* ASTRenderer.tsx maps the styles of a node.
CallConvertStyles ==
    /\ call.fn = "mapStyles"
    /\ ret.interactive = Pending
    /\ ret' = [ret EXCEPT !.interactive = Obj(convertStyles(call.styles))]
    /\ UNCHANGED call

\* Editor.tsx maps the styles of a node.
CallConvertStylesToCSS ==
    /\ call.fn = "mapStyles"
    /\ ret.export = Pending
    /\ ret' = [ret EXCEPT !.export = Str(convertStylesToCSS(call.styles))]
    /\ UNCHANGED call

NextStyle == CallConvertStyles \/ CallConvertStylesToCSS

SpecStyle == InitStyle /\ [][NextStyle]_vars

\* The entries of the style map whose value is neither undefined nor null
KeptStyles == SelectSeq(call.styles.v, LAMBDA e : e.v \notin {Undef, Null})

\* C20: both style mappers drop exactly the entries whose value is undefined
\* or null, every other source property appears in the camelCase result and
\* in the kebab-case result with its value, and no two source properties
\* are merged into one.
C20_SameStyleProperties ==
    call.fn = "mapStyles" =>
        /\ ret.interactive # Pending =>
              /\ Len(ret.interactive.v) = Len(KeptStyles)
              /\ \A i \in 1..Len(KeptStyles) :
                    \E j \in 1..Len(ret.interactive.v) :
                        ret.interactive.v[j]
                            = KV(toCamelCase(KeptStyles[i].k), KeptStyles[i].v)
        /\ ret.export # Pending =>
              ret.export = Str(join([i \in 1..Len(KeptStyles) |->
                                        KebabCase(KeptStyles[i].k) \o <<":", " ">>
                                            \o KeptStyles[i].v.v],
                                    <<";", " ">>))

(***************************************************************************)
(* The attributes of exported elements: a node with a class name and a     *)
(* style map over a child with neither.                                    *)
(***************************************************************************)
s_class == <<"c", "l", "a", "s", "s">>
s_style == <<"s", "t", "y", "l", "e">>
s_onclick == <<"o", "n", "c", "l", "i", "c", "k">>

\* class_name is any string: absent, a plain name, a name holding a quote
ClassNames ==
    {Undef, Str(<<"a">>),
     Str(<<"a", "\"", " ">> \o s_onclick \o <<"=", "\"", "x">>)}

AttrStyles == {Undef} \cup {Obj(entries) : entries \in StyleMaps}

AttrTemplate(tag, className, styles) ==
    [ASTNode(<<"n">>, tag, Str(<<"T">>), Undef,
             <<ASTNode(<<"k">>, s_span, Str(<<"K">>), Undef, <<>>)>>)
        EXCEPT !.class_name = className, !.styles = styles]

InitAttr ==
    /\ \E tag \in {s_div, <<"b", "r">>}, className \in ClassNames,
          styles \in AttrStyles :
          call = [fn |-> "render", node |-> AttrTemplate(tag, className, styles),
                  attrs |-> TRUE, data |-> DataTwo, ui |-> DefaultUI]
    /\ ret = NoResult

SpecAttr == InitAttr /\ [][NextRender]_vars

(***************************************************************************)
(* Claims about the attributes of exported elements.  The markup is read   *)
(* the way an HTML tokenizer reads start tags: a name up to "=", space,    *)
(* "/" or ">", and a quoted value up to the next quote.                    *)
(***************************************************************************)
\* The length of the longest prefix of s without a character of stops
Upto(s, stops) ==
    CHOOSE n \in 0..Len(s) :
        /\ \A i \in 1..n : s[i] \notin stops
        /\ n = Len(s) \/ s[n + 1] \in stops

Drop(s, n) == SubSeq(s, n + 1, Len(s))

\* The start tags of a markup string in order, each with its attribute names
RECURSIVE ScanText(_)
RECURSIVE ScanAttrs(_, _, _)
ScanText(s) ==
    LET n == Upto(s, {"<"})
        t == Drop(s, n + 1)
    IN IF n = Len(s) THEN <<>>
       ELSE IF t # <<>> /\ Head(t) = "/" THEN ScanText(Drop(t, Upto(t, {">"}) + 1))
       ELSE LET m == Upto(t, {" ", "/", ">"})
            IN ScanAttrs(SubSeq(t, 1, m), <<>>, Drop(t, m))

ScanAttrs(tag, names, s) ==
    IF s = <<>> THEN <<[tag |-> tag, attrs |-> names]>>
    ELSE IF Head(s) = ">" THEN <<[tag |-> tag, attrs |-> names]>> \o ScanText(Tail(s))
    ELSE IF Head(s) \in {" ", "/"} THEN ScanAttrs(tag, names, Tail(s))
    ELSE LET m == IF Head(s) = "=" THEN 1 ELSE Upto(s, {" ", "=", "/", ">"})
             name == SubSeq(s, 1, m)
             r == Drop(s, m)
             v == Drop(r, 1)
         IN IF r # <<>> /\ Head(r) = "="
            THEN IF v # <<>> /\ Head(v) = "\""
                 THEN ScanAttrs(tag, Append(names, name),
                                Drop(v, Upto(Tail(v), {"\""}) + 2))
                 ELSE ScanAttrs(tag, Append(names, name), Drop(v, Upto(v, {" ", ">"})))
            ELSE ScanAttrs(tag, Append(names, name), r)

InteractivityAttributes ==
    {<<"d", "r", "a", "g", "g", "a", "b", "l", "e">>,
     s_onclick,
     <<"o", "n", "d", "r", "a", "g", "s", "t", "a", "r", "t">>,
     <<"o", "n", "d", "r", "a", "g", "e", "n", "d">>,
     <<"o", "n", "m", "o", "u", "s", "e", "e", "n", "t", "e", "r">>,
     <<"o", "n", "m", "o", "u", "s", "e", "l", "e", "a", "v", "e">>,
     s_id}

IsAttr == call.fn = "render" /\ "attrs" \in DOMAIN call
HasClassName(node) == ~Falsy(node.class_name)
HasStyleMap(node) == node.styles.t = "object" /\ node.styles.v # <<>>

\* The attribute names of a claimed element of node
AttributesAsClaimed(node, names) ==
    /\ HasClassName(node) /\ HasStyleMap(node) =>
          \E i, j \in 1..Len(names) :
              i < j /\ names[i] = s_class /\ names[j] = s_style
    /\ ~HasClassName(node) /\ ~HasStyleMap(node) => names = <<>>
    /\ \A i \in 1..Len(names) : names[i] \notin InteractivityAttributes

\* C21: in export output every element that has both a class_name and a
\* non-empty style map carries the class attribute before the style
\* attribute, an element with neither carries no attribute, and no element
\* carries an interactivity attribute (draggable, event handlers, node id).
C21_ExportAttributes ==
    IsAttr /\ ret.export # Pending =>
        LET tags == ScanText(ret.export.v)
            kids == call.node.children
        IN /\ ret.export.t = "string"
           /\ Len(tags) >= 1
           /\ AttributesAsClaimed(call.node, tags[1].attrs)
           /\ \A i \in 2..Len(tags) :
                 i - 1 <= Len(kids) => AttributesAsClaimed(kids[i - 1], tags[i].attrs)

(***************************************************************************)
(* The mounted interactive renderer under pointer events.  The template:   *)
(*   r  div                                                                *)
(*     O  div   repeat?  "{{id}}"  data_path sections.experience[].content *)
(*       L  span           "{{item.id}}"                                   *)
(*     S  p              "s"                                               *)
(* The pointer rests on one element, which keeps that element and the      *)
(* elements around it hovered; a click or a drag starts on that element.   *)
(***************************************************************************)
s_absolute == <<"a", "b", "s", "o", "l", "u", "t", "e">>
s_color == <<"c", "o", "l", "o", "r">>

UIStyles ==
    {Undef,
     Obj(<<KV(s_color, Str(<<"1">>))>>),
     Obj(<<KV(s_color, Str(<<"1">>)), KV(s_position, Str(s_absolute))>>)}

UITemplate(repeat, draggable, styles) ==
    LET L == ASTNode(<<"L">>, s_span, Str(Placeholder(s_item_dot \o s_id)), Undef, <<>>)
        O == [ASTNode(<<"O">>, s_div, Str(Placeholder(s_id)), repeat, <<L>>)
                 EXCEPT !.data_path = Str(s_sections_dot \o s_experience
                                          \o <<"[", "]", ".">> \o s_content),
                        !.draggable = draggable,
                        !.styles = styles]
        S == ASTNode(<<"S">>, <<"p">>, Str(<<"s">>), Undef, <<>>)
    IN ASTNode(<<"r">>, s_div, Undef, Undef, <<O, S>>)

InitUI ==
    /\ \E repeat \in {Undef, Str(s_sections_dot \o s_experience)},
          draggable \in {Undef, Bool(FALSE)},
          styles \in UIStyles, editable \in BOOLEAN :
          call = [fn |-> "mount",
                  node |-> UITemplate(repeat, draggable, styles),
                  data |-> DataTwo,
                  ui |-> [DefaultUI EXCEPT !.editable = editable]]
    /\ ret = [interactive |-> Pending, mounted |-> Pending,
              export |-> Pending, exported |-> Pending,
              clicked |-> Undef, draggedNode |-> Null]

\* The rendered elements with their places; hints are no components
RECURSIVE Placed(_, _)
Placed(elements, at) ==
    UNION {IF elements[i].role = "hint" THEN {}
           ELSE {[place |-> Append(at, elements[i].id), element |-> elements[i]]}
                \cup Placed(elements[i].children, Append(at, elements[i].id)) :
           i \in 1..Len(elements)}

Mounted == call.fn = "mount" /\ ret.interactive # Pending
ElementAt(place) ==
    (CHOOSE x \in Placed(ret.interactive.v, <<>>) : x.place = place).element

\* The place the pointer rests on: the innermost hovered element
PointerTarget ==
    CHOOSE place \in call.ui.hovered :
        \A other \in call.ui.hovered : Len(other) <= Len(place)

\* React renders the tree again after a change of props or state.
Rendered(ui) == ASTNodeRenderer(call.node, call.data, Undef, ui)

\* ASTRenderer mounts the template root.
Mount ==
    /\ call.fn = "mount"
    /\ ret.interactive = Pending
    /\ ret' = [ret EXCEPT !.interactive = Rendered(call.ui),
                          !.mounted = Rendered(call.ui)]
    /\ UNCHANGED call

\* onMouseEnter / onMouseLeave: the pointer moves onto an element, which
\* enters it and the elements around it and leaves the others, or off the
\* tree.  No mouse event arrives during a drag.
MouseMove ==
    /\ Mounted
    /\ call.ui.dragging = {}
    /\ \E target \in {x.place : x \in Placed(ret.interactive.v, <<>>)} \cup {<<>>} :
          LET ui == [call.ui EXCEPT
                        !.hovered = {SubSeq(target, 1, n) : n \in 1..Len(target)}]
          IN /\ ui # call.ui
             /\ call' = [call EXCEPT !.ui = ui]
             /\ ret' = [ret EXCEPT !.interactive = Rendered(ui)]

\* handleClick on the element under the pointer: the click does not reach
\* the elements around it; Editor stores the id as the focused section,
\* which comes back as selectedNodeId.
Click ==
    /\ Mounted
    /\ call.ui.hovered # {}
    /\ LET id == ElementAt(PointerTarget).id
           ui == [call.ui EXCEPT !.selectedNodeId = IF id = <<>> THEN Undef ELSE Str(id)]
       IN /\ call' = [call EXCEPT !.ui = ui]
          /\ ret' = [ret EXCEPT !.clicked = Str(id), !.interactive = Rendered(ui)]

\* handleDragStart on the innermost element under the pointer that offers
\* dragging; Editor stores the payload as draggedNode.
DragStart ==
    /\ Mounted
    /\ call.ui.dragging = {}
    /\ \E source \in call.ui.hovered :
          /\ ElementAt(source).draggable
          /\ \A other \in call.ui.hovered :
                ElementAt(other).draggable => Len(other) <= Len(source)
          /\ LET ui == [call.ui EXCEPT !.dragging = {source}]
             IN /\ call' = [call EXCEPT !.ui = ui]
                /\ ret' = [ret EXCEPT !.draggedNode = ElementAt(source).onDragStart,
                                      !.interactive = Rendered(ui)]

\* handleDragEnd
DragEnd ==
    /\ Mounted
    /\ call.ui.dragging # {}
    /\ LET ui == [call.ui EXCEPT !.dragging = {}]
       IN /\ call' = [call EXCEPT !.ui = ui]
          /\ ret' = [ret EXCEPT !.interactive = Rendered(ui)]

\* handleExportHTML, at most twice: exported keeps the markup of the call
\* before the last one.  The export button lies outside the rendered tree.
HandleExportHTML ==
    /\ call.fn = "mount"
    /\ call.ui.hovered = {}
    /\ call.ui.dragging = {}
    /\ ret.exported = Pending
    /\ ret' = [ret EXCEPT !.export = astToHtml(call.node, call.data, Undef),
                          !.exported = ret.export]
    /\ UNCHANGED call

NextUI == Mount \/ MouseMove \/ Click \/ DragStart \/ DragEnd \/ HandleExportHTML

SpecUI == InitUI /\ [][NextUI]_vars

(***************************************************************************)
(* Claims about repeated renders.                                          *)
(***************************************************************************)
IsUI == call.fn = "mount"

\* The style properties the affordances write
AffordanceProperties == {s_cursor, s_outline, s_outlineOffset, s_opacity, s_position}

\* What a list of rendered elements shows apart from the affordances: the
\* elements of nodes in order, each with its tag, id, class, source, text,
\* drag payload, the style properties no affordance writes, and children
RECURSIVE Shown(_)
Shown(elements) ==
    LET nodes == SelectSeq(elements, LAMBDA e : e.role = "node")
    IN [i \in 1..Len(nodes) |->
           [tag |-> nodes[i].tag, id |-> nodes[i].id,
            className |-> nodes[i].className, src |-> nodes[i].src,
            text |-> nodes[i].text, onDragStart |-> nodes[i].onDragStart,
            style |-> SelectSeq(nodes[i].style,
                                LAMBDA e : e.k \notin AffordanceProperties),
            children |-> Shown(nodes[i].children)]]

\* The props and state of a renderer that was just mounted
FreshUI == [DefaultUI EXCEPT !.editable = call.ui.editable]

\* The children of the template root rendered on their own
ChildrenAlone ==
    [i \in 1..Len(call.node.children) |->
        ASTNodeRenderer(call.node.children[i], call.data, Undef, FreshUI).v]
ChildrenHtmlAlone ==
    [i \in 1..Len(call.node.children) |->
        astToHtml(call.node.children[i], call.data, Undef).v]

ArrayCell(items) == [kind |-> "array", items |-> items]
DataCell(data) == [kind |-> "data", value |-> data]

\* A new object on the heap
Alloc(heap, cell) == [heap |-> Append(heap, cell), at |-> Len(heap) + 1]

\* The objects of a template tree, children first
RECURSIVE Store(_, _)
RECURSIVE StoreAll(_, _)
StoreAll(heap, nodes) ==
    IF nodes = <<>> THEN [heap |-> heap, at |-> <<>>]
    ELSE LET first == Store(heap, Head(nodes))
             rest == StoreAll(first.heap, Tail(nodes))
         IN [heap |-> rest.heap, at |-> <<first.at>> \o rest.at]
Store(heap, node) ==
    LET kids == StoreAll(heap, node.children)
        array == Alloc(kids.heap, ArrayCell(kids.at))
    IN Alloc(array.heap, [node EXCEPT !.children = array.at])

\* The tree below the node object at an address
RECURSIVE Reify(_, _)
Reify(heap, a) ==
    [heap[a] EXCEPT !.children =
        [i \in 1..Len(heap[@].items) |-> Reify(heap, heap[@].items[i])]]

\* No copy: the name of the copy is bound to the object itself
WrongSpread(heap, a) == [heap |-> heap, at |-> a]

\* { ...node }
Spread(heap, a) == Alloc(heap, heap[a])

\* updateNodePaths on the heap: the address of updatedNode
RECURSIVE HeapUpdateNodePaths(_, _, _, _)
RECURSIVE HeapMapChildren(_, _, _, _)
HeapMapChildren(heap, children, repeatPath, index) ==
    IF children = <<>> THEN [heap |-> heap, at |-> <<>>]
    ELSE LET first == HeapUpdateNodePaths(heap, Head(children), repeatPath, index)
             rest == HeapMapChildren(first.heap, Tail(children), repeatPath, index)
         IN [heap |-> rest.heap, at |-> <<first.at>> \o rest.at]
HeapUpdateNodePaths(heap, a, repeatPath, index) ==
    LET copy == Spread(heap, a)
        u == copy.at
        h1 == [copy.heap EXCEPT
                  ![u].content =
                      IF Falsy(@) THEN @
                      ELSE Str(PinIndex(PinIndex(@.v, repeatPath, index, FALSE),
                                        repeatPath, index, TRUE))]
        h2 == [h1 EXCEPT
                  ![u].data_path =
                      IF @.t = "string" /\ startsWith(@.v, repeatPath \o <<"[">>)
                      THEN Str(PinDataPath(@.v, repeatPath, index))
                      ELSE @]
        kids == HeapMapChildren(h2, h2[h2[u].children].items, repeatPath, index)
        array == Alloc(kids.heap, ArrayCell(kids.at))
    IN [heap |-> [array.heap EXCEPT ![u].children = array.at], at |-> u]

\* The heap after a render of the node at an address: the interactive
\* renderer builds updatedNode for every item, export nodeWithoutRepeat
RECURSIVE HeapRender(_, _, _, _)
RECURSIVE HeapRenderAll(_, _, _, _)
RECURSIVE HeapRenderInstances(_, _, _, _, _, _, _)
HeapRenderAll(heap, nodes, data, interactive) ==
    IF nodes = <<>> THEN heap
    ELSE LET after == HeapRender(heap, Head(nodes), data, interactive)
         IN IF Len(after) < Len(heap) THEN after
            ELSE HeapRenderAll(after, Tail(nodes), data, interactive)
HeapRenderInstances(heap, a, repeatPath, index, n, data, interactive) ==
    IF index >= n THEN heap
    ELSE LET copy == Spread(heap, a)
             literal ==
                 [copy.heap EXCEPT
                     ![copy.at].id = IF interactive
                                     THEN @ \o <<"-">> \o NatToString(index) ELSE @,
                     ![copy.at].repeat = Undef]
             instance ==
                 IF interactive
                 THEN HeapUpdateNodePaths(literal, copy.at, repeatPath, index)
                 ELSE [heap |-> literal, at |-> copy.at]
             after == HeapRender(instance.heap, instance.at, data, interactive)
         IN IF Len(after) < Len(heap) THEN after
            ELSE HeapRenderInstances(after, a, repeatPath, index + 1, n, data, interactive)
HeapRender(heap, a, data, interactive) ==
    LET node == heap[a]
        repeatData == IF interactive THEN RepeatData(node.repeat.v, heap[data].value)
                      ELSE Editor_RepeatData(node.repeat.v, heap[data].value)
    IN IF ~Falsy(node.repeat) /\ repeatData.t = "array" /\ Len(repeatData.v) > 0
       THEN HeapRenderInstances(heap, a, node.repeat.v, 0, Len(repeatData.v), data,
                                interactive)
       ELSE IF ~Falsy(node.repeat) /\ ~interactive THEN heap
       ELSE IF interactive /\ toLowerCase(node.tag) \in VOID_ELEMENTS THEN heap
       ELSE HeapRenderAll(heap, heap[node.children].items, data, interactive)

(***************************************************************************)
(* Renders of a template held on the heap:                                 *)
(*   r  div                                                                *)
(*     O  div  repeat r1  "{{<r1>[].id}}"  data_path "<r1>[].content"      *)
(*       L  span            "{{<r1>[].id}}"                                *)
(*       N  div  repeat r2  "{{<r2>[].id}}"                                *)
(***************************************************************************)
FrameTemplate(r1, r2) ==
    LET ref(r) == IF r = Undef THEN Str(Placeholder(s_id))
                  ELSE Str(Placeholder(r.v \o <<"[", "]", ".">> \o s_id))
        N == ASTNode(<<"N">>, s_div, ref(r2), r2, <<>>)
        L == ASTNode(<<"L">>, s_span, ref(r1), Undef, <<>>)
        O == [ASTNode(<<"O">>, s_div, ref(r1), r1, <<L, N>>)
                 EXCEPT !.data_path =
                     IF r1 = Undef THEN Undef
                     ELSE Str(r1.v \o <<"[", "]", ".">> \o s_content)]
    IN ASTNode(<<"r">>, s_div, Undef, Undef, <<O>>)

FrameRepeats ==
    {Undef, Str(s_sections), Str(s_sections_dot \o s_experience), Str(s_awards)}

\* The data object and the template are on the heap before the render.
InitFrame ==
    /\ \E r1 \in FrameRepeats, r2 \in FrameRepeats \ {Str(s_awards)},
          d \in {DataEmpty, DataTwo, DataMixed} :
          LET stored == Store(<<DataCell(d)>>, FrameTemplate(r1, r2))
          IN call = [fn |-> "frame", heap |-> stored.heap, before |-> stored.heap,
                     data |-> 1, root |-> stored.at]
    /\ ret = NoResult

\* ASTRenderer renders the template root.
FrameInteractive ==
    /\ call.fn = "frame"
    /\ ret.interactive = Pending
    /\ call' = [call EXCEPT !.heap = HeapRender(call.heap, call.root, call.data, TRUE)]
    /\ ret' = [ret EXCEPT !.interactive =
                  ASTNodeRenderer(Reify(call.heap, call.root),
                                  call.heap[call.data].value, Undef, DefaultUI)]

\* handleExportHTML renders the template root.
FrameExport ==
    /\ call.fn = "frame"
    /\ ret.export = Pending
    /\ call' = [call EXCEPT !.heap = HeapRender(call.heap, call.root, call.data, FALSE)]
    /\ ret' = [ret EXCEPT !.export =
                  astToHtml(Reify(call.heap, call.root),
                            call.heap[call.data].value, Undef)]

NextFrame == FrameInteractive \/ FrameExport

SpecFrame == InitFrame /\ [][NextFrame]_vars

\* C23: a render in either mode leaves the template tree and the data as
\* they were: every object that was on the heap before the render, repeat
\* nodes and their descendants included, holds the same id, repeat,
\* content, data_path, styles and children after it; expansion and path
\* rewriting write to copies only.
C23_InputsUnchanged ==
    call.fn = "frame" =>
        /\ Len(call.heap) >= Len(call.before)
        /\ \A a \in 1..Len(call.before) : call.heap[a] = call.before[a]
        /\ Reify(call.heap, call.root) = Reify(call.before, call.root)

\* Both renders ran, the interactive one built the instance O-1 with its
\* content pinned to index 1, and the template still holds "{{sections[].id}}".
C23_Witness ==
    /\ call.fn = "frame"
    /\ ret.interactive # Pending
    /\ ret.export # Pending
    /\ \E a \in (Len(call.before) + 1)..Len(call.heap) :
          /\ "id" \in DOMAIN call.heap[a]
          /\ call.heap[a].id = <<"O", "-", "1">>
          /\ call.heap[a].content
                = Str(Placeholder(s_sections \o <<"[", "1", "]", ".">> \o s_id))
          /\ call.heap[a].repeat = Undef
    /\ Reify(call.heap, call.root).children[1].content
          = Str(Placeholder(s_sections \o <<"[", "]", ".">> \o s_id))

(***************************************************************************)
(* The two renderers applied to data that is not shaped like ResumeData:   *)
(*   r  div                                                                *)
(*     O  div  repeat <directive>  "{{<path>}}"                            *)
(*       L  span                   "{{item.id}}"                           *)
(***************************************************************************)
\* {id: "m1", type: "skill"}: an item without a content field
Sec_m1 == Obj(<<KV(s_id, Str(<<"m", "1">>)), KV(s_type, Str(s_skill))>>)

\* Values found where an array of sections is expected
MalformedSources ==
    {Str(<<"a", "b">>), Num(5), Obj(<<>>), Null,
     Arr(<<Null>>), Arr(<<Num(5)>>), Arr(<<Str(<<"a", "b">>)>>),
     Arr(<<Sec_m1>>), Arr(<<Sec_n1>>), Arr(<<Sec_k1, Null>>)}

\* {profile, sections: source, awards: source}
MalformedData(source) ==
    Obj(<<KV(s_profile, Profile), KV(s_sections, source), KV(s_awards, source)>>)

MalformedPaths ==
    {s_content_dot \o s_title, s_id, s_item \o <<".">> \o s_id, s_note,
     s_profile \o <<".">> \o s_name}

MalformedTemplate(repeat, path) ==
    Root(<<ASTNode(<<"O">>, s_div, Str(Placeholder(path)), Str(repeat),
                   <<ASTNode(<<"L">>, s_span,
                             Str(Placeholder(s_item \o <<".">> \o s_id)),
                             Undef, <<>>)>>)>>)

InitMalformed ==
    /\ \E repeat \in {s_sections, s_sections_dot \o s_skill, s_awards},
          path \in MalformedPaths, source \in MalformedSources :
          call = [fn |-> "render", node |-> MalformedTemplate(repeat, path),
                  malformed |-> TRUE, source |-> source,
                  data |-> MalformedData(source), ui |-> DefaultUI]
    /\ ret = NoResult

SpecMalformed == InitMalformed /\ [][NextRender]_vars

\* C24: the renderer never raises for malformed data: whatever is found
\* where the sections or the repeat source are expected (a value that is
\* not an array, an array holding null or primitive elements, items
\* without a content field, null-valued fields), rendering in either mode
\* completes and yields output or an empty fragment.
C24_NeverRaises ==
    "malformed" \in DOMAIN call =>
        /\ ret.interactive # Throw
        /\ ret.export # Throw

(***************************************************************************)
(* Drag-start on the mounted tree of SpecUI.                               *)
(***************************************************************************)
\* The nodes the mounted tree is rendered from: the template nodes and, for
\* a repeat node, its instances with the index-suffixed id and the
\* index-pinned data_path
RenderedNodes ==
    LET O == call.node.children[1]
        instance(index) ==
            [O EXCEPT !.id = @ \o <<"-">> \o NatToString(index),
                      !.repeat = Undef,
                      !.data_path = Str(s_sections_dot \o s_experience \o <<"[">>
                                        \o NatToString(index) \o <<"]", ".">>
                                        \o s_content)]
    IN {call.node, call.node.children[2], O.children[1]}
       \cup (IF Falsy(O.repeat) THEN {O} ELSE {instance(0), instance(1)})

NodeOf(id) == CHOOSE node \in RenderedNodes : node.id = id

OffersDragStart(node) == node.draggable # Bool(FALSE) /\ call.ui.editable

\* {id: node.id, path: node.data_path, type: node.type, content: node.content}
ClaimedPayload(node) ==
    [id |-> node.id, path |-> node.data_path, type |-> node.type,
     content |-> node.content]

\* The same with path: '' for a node that has no data_path
PayloadOrEmptyPath(node) ==
    [ClaimedPayload(node) EXCEPT !.path = IF @ = Undef THEN EmptyStr ELSE @]

\* C25 as stated: a node offers drag-start exactly when node.draggable is
\* not false and the renderer is editable, and the payload reported to
\* onNodeDragStart is {id: node.id, path: node.data_path, type: node.type,
\* content: node.content}, with the template content and, for an instance,
\* the index-suffixed id and index-pinned data_path.
C25_Original ==
    Mounted =>
        /\ \A x \in Placed(ret.interactive.v, <<>>) :
              LET node == NodeOf(x.element.id)
              IN /\ x.element.draggable = OffersDragStart(node)
                 /\ x.element.onDragStart
                       = IF OffersDragStart(node) THEN ClaimedPayload(node) ELSE Undef
        /\ ret.draggedNode # Null =>
              \E node \in RenderedNodes :
                  OffersDragStart(node) /\ ret.draggedNode = ClaimedPayload(node)

\* C25: a node offers drag-start exactly when node.draggable is not false
\* and the renderer is editable; the payload reported to onNodeDragStart is
\* {id: node.id, path: node.data_path or '' when the node has none,
\* type: node.type, content: node.content}, with the template content and,
\* for an instance, the index-suffixed id and index-pinned data_path.
C25_DragPayload ==
    Mounted =>
        /\ \A x \in Placed(ret.interactive.v, <<>>) :
              LET node == NodeOf(x.element.id)
              IN /\ x.element.draggable = OffersDragStart(node)
                 /\ x.element.onDragStart
                       = IF OffersDragStart(node) THEN PayloadOrEmptyPath(node)
                         ELSE Undef
        /\ ret.draggedNode # Null =>
              \E node \in RenderedNodes :
                  OffersDragStart(node) /\ ret.draggedNode = PayloadOrEmptyPath(node)

\* The second instance of the repeat node has been dragged.
C25_Witness ==
    /\ Mounted
    /\ ret.draggedNode
          = [id |-> <<"O", "-", "1">>,
             path |-> Str(s_sections_dot \o s_experience
                          \o <<"[", "1", "]", ".">> \o s_content),
             type |-> <<"t">>,
             content |-> Str(Placeholder(s_id))]
    /\ \E x \in Placed(ret.interactive.v, <<>>) :
          x.element.id = <<"O", "-", "1">> /\ x.element.text = <<"e", "2">>

(***************************************************************************)
(* One render as a sequence of calls: the stack holds the calls that are   *)
(* still to be made, the next one first.  The template:                    *)
(*   r  div                                                                *)
(*     O  div  repeat r1                                                   *)
(*       L  span                                                           *)
(*       N  div  repeat r2                                                 *)
(*         M  span                                                         *)
(*       B  br                                                             *)
(*         X  span                                                         *)
(*     S  p                                                                *)
(***************************************************************************)
WalkTemplate(r1, r2) ==
    LET leaf(id, tag) == ASTNode(id, tag, Str(Placeholder(s_id)), Undef, <<>>)
        N == ASTNode(<<"N">>, s_div, Undef, r2, <<leaf(<<"M">>, s_span)>>)
        B == ASTNode(<<"B">>, <<"b", "r">>, Undef, Undef, <<leaf(<<"X">>, s_span)>>)
        O == ASTNode(<<"O">>, s_div, Undef, r1, <<leaf(<<"L">>, s_span), N, B>>)
    IN Root(<<O, leaf(<<"S">>, <<"p">>)>>)

WalkRepeats ==
    {Undef, Str(s_sections), Str(s_sections_dot \o s_skill), Str(s_awards)}

\* A call that is still to be made; clone marks the calls of a repeat
\* expansion
Frame(node, repeatItem, clone) ==
    [node |-> node, repeatItem |-> repeatItem, clone |-> clone]

InitWalk ==
    /\ \E r1 \in WalkRepeats, r2 \in WalkRepeats,
          d \in {DataEmpty, DataTwo, DataMixed},
          mode \in {"interactive", "export"} :
          call = [fn |-> "walk", mode |-> mode, node |-> WalkTemplate(r1, r2),
                  data |-> d,
                  stack |-> <<Frame(WalkTemplate(r1, r2), Undef, FALSE)>>]
    /\ ret = [calls |-> 0, expansions |-> 0]

\* One call of ASTNodeRenderer: a repeat node with items renders a clone
\* per item, any other node that is not a void element its children
RenderCall ==
    /\ call.fn = "walk"
    /\ call.mode = "interactive"
    /\ call.stack # <<>>
    /\ ret.calls < MaxCalls
    /\ LET node == Head(call.stack).node
           repeatItem == Head(call.stack).repeatItem
           repeatData == RepeatData(node.repeat.v, call.data)
           expands == /\ ~Falsy(node.repeat)
                      /\ repeatData.t = "array"
                      /\ Len(repeatData.v) > 0
           rendered ==
               IF expands
               THEN [i \in 1..Len(repeatData.v) |->
                        Frame(updatedNode(node, i - 1), repeatData.v[i], TRUE)]
               ELSE IF toLowerCase(node.tag) \in VOID_ELEMENTS THEN <<>>
               ELSE [i \in 1..Len(node.children) |->
                        Frame(node.children[i], repeatItem, FALSE)]
       IN /\ call' = [call EXCEPT !.stack = rendered \o Tail(@)]
          /\ ret' = [calls |-> ret.calls + 1,
                     expansions |-> ret.expansions + (IF expands THEN 1 ELSE 0)]

\* One call of astToHtml: a repeat node renders a clone per item and
\* nothing else, any other node its children
ExportCall ==
    /\ call.fn = "walk"
    /\ call.mode = "export"
    /\ call.stack # <<>>
    /\ ret.calls < MaxCalls
    /\ LET node == Head(call.stack).node
           repeatItem == Head(call.stack).repeatItem
           repeatData == Editor_RepeatData(node.repeat.v, call.data)
           expands == ~Falsy(node.repeat) /\ HasItems(repeatData)
           rendered ==
               IF expands
               THEN [i \in 1..Len(repeatData.v) |->
                        Frame(nodeWithoutRepeat(node), repeatData.v[i], TRUE)]
               ELSE IF ~Falsy(node.repeat) THEN <<>>
               ELSE [i \in 1..Len(node.children) |->
                        Frame(node.children[i], repeatItem, FALSE)]
       IN /\ call' = [call EXCEPT !.stack = rendered \o Tail(@)]
          /\ ret' = [calls |-> ret.calls + 1,
                     expansions |-> ret.expansions + (IF expands THEN 1 ELSE 0)]

NextWalk == RenderCall \/ ExportCall

SpecWalk == InitWalk /\ [][NextWalk]_vars

\* The render is not suspended: a call that is to be made is made.
SpecWalkFair == SpecWalk /\ WF_vars(NextWalk)

\* The nodes of a tree, a node before its children
RECURSIVE NodesOf(_)
RECURSIVE NodesOfAll(_)
NodesOfAll(nodes) ==
    IF nodes = <<>> THEN <<>> ELSE NodesOf(Head(nodes)) \o NodesOfAll(Tail(nodes))
NodesOf(node) == <<node>> \o NodesOfAll(node.children)

TreeSize(node) == Len(NodesOf(node))

RECURSIVE Product(_)
Product(numbers) ==
    IF numbers = <<>> THEN 1 ELSE Head(numbers) * Product(Tail(numbers))

\* The number of items the repeat directive of a node selects in the mode
\* of the render
IteratedSize(node) ==
    LET repeatData == IF call.mode = "interactive"
                      THEN RepeatData(node.repeat.v, call.data)
                      ELSE Editor_RepeatData(node.repeat.v, call.data)
    IN IF Falsy(node.repeat) \/ repeatData.t # "array" THEN 0
       ELSE Len(repeatData.v)

\* The sizes of the iterated sequences multiplied: a sequence without
\* items is not iterated
SizesOfIterated(node) ==
    Product([i \in 1..TreeSize(node) |->
                IF IteratedSize(NodesOf(node)[i]) = 0 THEN 1
                ELSE IteratedSize(NodesOf(node)[i])])

\* One call for a repeat node and one for each of its items
CallsOfIterated(node) ==
    Product([i \in 1..TreeSize(node) |-> IteratedSize(NodesOf(node)[i]) + 1])

WalkDone == call.stack = <<>>

ClonesCleared ==
    \A i \in 1..Len(call.stack) :
        call.stack[i].clone => Falsy(call.stack[i].node.repeat)

\* C26 as stated: rendering terminates in both modes, every clone of a
\* repeat expansion has its repeat directive cleared, and the number of
\* render calls is at most the tree size times the sizes of the iterated
\* sequences.
C26_Original ==
    /\ [](call.fn = "walk" =>
             /\ ClonesCleared
             /\ ret.calls <= TreeSize(call.node)
                                * SizesOfIterated(call.node))
    /\ <>(call.fn = "walk" => WalkDone)

\* C26: rendering terminates in both modes, every clone of a repeat
\* expansion has its repeat directive cleared, and the number of render
\* calls is at most the tree size times the product, over the repeat
\* nodes, of the size of the iterated sequence plus one.
C26_Terminates ==
    /\ [](call.fn = "walk" =>
             /\ ClonesCleared
             /\ ret.calls <= TreeSize(call.node)
                                * CallsOfIterated(call.node))
    /\ <>(call.fn = "walk" => WalkDone)

\* A render with nested expansions has made all its calls.
C26_Witness ==
    /\ call.fn = "walk"
    /\ WalkDone
    /\ ret.expansions >= 4
    /\ ret.calls > TreeSize(call.node)

(***************************************************************************)
(* The ids of the mounted tree of SpecUI.                                  *)
(***************************************************************************)
TemplateIdsDistinct ==
    \A i, j \in 1..TreeSize(call.node) :
        NodesOf(call.node)[i].id = NodesOf(call.node)[j].id => i = j

Highlighted(element) ==
    PropertyOf(Obj(element.style), s_outline) = Str(s_selected_outline)

\* C27: if all node ids of the template are pairwise distinct, all node
\* ids of the mounted tree are pairwise distinct, descendants of different
\* instances of one repeat node included, and selectedNodeId highlights at
\* most one rendered node.
C27_MaterializedIdsDistinct ==
    (Mounted /\ TemplateIdsDistinct) =>
        LET placed == Placed(ret.interactive.v, <<>>)
        IN /\ \A x, y \in placed : x.element.id = y.element.id => x.place = y.place
           /\ Cardinality({x \in placed : Highlighted(x.element)}) <= 1

(***************************************************************************)
(* Placeholders that name the repeat path, below a repeat node:            *)
(*   r  div                                                                *)
(*     O  div  repeat <repeatPath>                                         *)
(*       L  span  "{{<repeatPath>[].<field>}}"          (deep = FALSE)     *)
(*       W  div                                         (deep = TRUE)      *)
(*         L  span  "{{<repeatPath>[].<field>}}"                           *)
(***************************************************************************)
PinTemplate(repeatPath, field, deep) ==
    LET L == ASTNode(<<"L">>, s_span,
                     Str(Placeholder(repeatPath \o <<"[", "]", ".">> \o field)),
                     Undef, <<>>)
        W == ASTNode(<<"W">>, s_div, Undef, Undef, <<L>>)
    IN Root(<<ASTNode(<<"O">>, s_div, Undef, Str(repeatPath),
                      IF deep THEN <<W>> ELSE <<L>>)>>)

PinRepeatPaths ==
    {s_sections, s_sections_dot \o s_skill, s_sections_dot \o s_experience, s_awards}

PinFields == {s_id, s_type, s_title, s_content_dot \o s_title}

InitPin ==
    /\ \E repeatPath \in PinRepeatPaths, field \in PinFields, deep \in BOOLEAN,
          d \in {DataEmpty, DataTwo, DataMixed} :
          call = [fn |-> "render", node |-> PinTemplate(repeatPath, field, deep),
                  repeatPath |-> repeatPath, field |-> field, deep |-> deep,
                  data |-> d, ui |-> DefaultUI]
    /\ ret = NoResult

SpecPin == InitPin /\ [][NextRender]_vars

\* String(value || '') of the field of an item
FieldText(item, field) ==
    LET value == getValueByPath(item, field)
    IN IF Falsy(value) THEN <<>> ELSE String(value)

\* C28: inside the k-th instance of a repeat over <repeatPath>, a
\* descendant placeholder {{<repeatPath>[].f}} renders the field f of the
\* k-th iterated item.
C28_OwnItemField ==
    ("repeatPath" \in DOMAIN call /\ ret.interactive \notin {Pending, Throw}) =>
        LET items == RepeatData(call.repeatPath, call.data)
            instances == ret.interactive.v[1].children
        IN (items.t = "array" /\ Len(items.v) > 0) =>
              /\ Len(instances) = Len(items.v)
              /\ \A k \in 1..Len(instances) :
                    LET L == IF call.deep THEN instances[k].children[1].children[1]
                             ELSE instances[k].children[1]
                    IN L.text = FieldText(items.v[k], call.field)

(***************************************************************************)
(* The declared styles on the mounted tree of SpecUI.                      *)
(***************************************************************************)
\* The entries of node.styles that export writes into the style attribute
Declared(node) ==
    IF Falsy(node.styles) THEN <<>>
    ELSE SelectSeq(node.styles.v, LAMBDA e : e.v.t \notin {"undefined", "null"})

\* C29: the style properties declared in node.styles reach the rendered
\* element with their declared values in every hover, selected and
\* dragging state: affordance styling overrides no declared property.
C29_DeclaredStylesKept ==
    Mounted =>
        \A x \in Placed(ret.interactive.v, <<>>) :
            LET declared == Declared(NodeOf(x.element.id))
            IN \A i \in 1..Len(declared) :
                  PropertyOf(Obj(x.element.style), toCamelCase(declared[i].k))
                      = declared[i].v

(***************************************************************************)
(* The editor page, its chat panel and the resume store.  The route is 0   *)
(* on the home page and the id of a resume on its editor page.  A request  *)
(* in flight is live while the component that sent it is mounted.  The     *)
(* content of a resume is written as the id of the resume it belongs to.   *)
(***************************************************************************)
ResumeIds == {1, 2}

ResumeFields == {"resume_data", "layout_config", "template_ast"}

\* The resume the server holds under an id
ResumeOf(id) ==
    [id |-> id, resume_data |-> id, layout_config |-> id, template_ast |-> id]

\* The initial state of useResumeStore
InitialStore == [currentResume |-> Null, messages |-> <<>>, draggedNode |-> Null]

\* setCurrentResume
setCurrentResume(store, resume) ==
    [store EXCEPT !.currentResume = resume, !.messages = <<>>, !.draggedNode = Null]

\* updateResumeData, updateLayoutConfig and updateTemplateAst for the
\* fields a chat response holds
RECURSIVE UpdateFields(_, _, _)
UpdateFields(store, fields, value) ==
    IF fields = {} THEN store
    ELSE LET field == CHOOSE f \in fields : TRUE
         IN UpdateFields(
                [store EXCEPT !.currentResume =
                    IF @ = Null THEN Null ELSE [@ EXCEPT ![field] = value]],
                fields \ {field}, value)

\* addMessage
addMessage(store, message) == [store EXCEPT !.messages = Append(@, message)]

\* A sequence without its i-th element
Without(seq, i) == SubSeq(seq, 1, i - 1) \o SubSeq(seq, i + 1, Len(seq))

\* No component that sent a request is mounted any more
Unmounted(requests) == [i \in 1..Len(requests) |-> [requests[i] EXCEPT !.live = FALSE]]

InitChat ==
    /\ call = [fn |-> "chat", route |-> 0, editorLoading |-> FALSE,
               panelLoading |-> FALSE, store |-> InitialStore,
               loads |-> <<>>, chats |-> <<>>, sends |-> 0]
    /\ ret = [applied |-> Null]

\* ChatPanel is rendered by Editor once the resume is loaded.
PanelMounted ==
    /\ call.route # 0
    /\ ~call.editorLoading
    /\ call.store.currentResume # Null

\* The home page opens the editor of a resume: Editor mounts and its effect
\* calls loadResume.
OpenEditor ==
    /\ call.fn = "chat"
    /\ call.route = 0
    /\ Len(call.loads) < MaxLoads
    /\ \E id \in ResumeIds :
          call' = [call EXCEPT !.route = id, !.editorLoading = TRUE,
                               !.panelLoading = FALSE,
                               !.loads = Append(@, [id |-> id, live |-> TRUE])]
    /\ UNCHANGED ret

\* navigate('/') of the editor page: Editor and ChatPanel unmount.
NavigateHome ==
    /\ PanelMounted
    /\ call' = [call EXCEPT !.route = 0, !.panelLoading = FALSE,
                            !.loads = Unmounted(@), !.chats = Unmounted(@)]
    /\ UNCHANGED ret

\* getResume of loadResume returns: the resume becomes the current one, or
\* the request failed and the page navigates home.  A navigate of a
\* component that is not mounted any more may or may not take effect.
LoadReturns ==
    /\ call.fn = "chat"
    /\ \E i \in 1..Len(call.loads), ok \in BOOLEAN, navigates \in BOOLEAN :
          LET load == call.loads[i]
              rest == Without(call.loads, i)
          IN /\ load.live => navigates
             /\ ok => navigates
             /\ call' =
                   IF ok
                   THEN [call EXCEPT
                            !.store = setCurrentResume(@, ResumeOf(load.id)),
                            !.editorLoading = IF load.live THEN FALSE ELSE @,
                            !.loads = rest]
                   ELSE IF navigates /\ call.route # 0
                   THEN [call EXCEPT !.route = 0, !.editorLoading = FALSE,
                                     !.panelLoading = FALSE,
                                     !.loads = Unmounted(rest),
                                     !.chats = Unmounted(@)]
                   ELSE [call EXCEPT
                            !.editorLoading = IF load.live THEN FALSE ELSE @,
                            !.loads = rest]
    /\ UNCHANGED ret

\* onNodeDragStart / handleDrop: a node is attached to the next message.
SetDraggedNode ==
    /\ PanelMounted
    /\ call.store.draggedNode = Null
    /\ call' = [call EXCEPT !.store.draggedNode = Str(<<"n">>)]
    /\ UNCHANGED ret

\* handleSend with a message that is not empty, up to the await
HandleSend ==
    /\ PanelMounted
    /\ ~call.panelLoading
    /\ call.sends < MaxSends
    /\ call' = [call EXCEPT
                   !.store = [addMessage(@, [role |-> "user", failed |-> FALSE])
                                 EXCEPT !.draggedNode = Null],
                   !.panelLoading = TRUE,
                   !.chats = Append(@, [resumeId |-> call.route, live |-> TRUE]),
                   !.sends = @ + 1]
    /\ UNCHANGED ret

\* handleSend after the await: the response holds any of resume_data,
\* layout_config and template_ast of the resume the message was sent for,
\* or the request failed.
ChatReturns ==
    /\ call.fn = "chat"
    /\ \E i \in 1..Len(call.chats), ok \in BOOLEAN, fields \in SUBSET ResumeFields :
          LET chat == call.chats[i]
              message == [role |-> "assistant", failed |-> ~ok]
          IN /\ ~ok => fields = {}
             /\ call' = [call EXCEPT
                            !.store = UpdateFields(addMessage(@, message), fields,
                                                   chat.resumeId),
                            !.panelLoading = IF chat.live THEN FALSE ELSE @,
                            !.chats = Without(@, i)]
             /\ ret' = [applied |->
                           [sentFor |-> chat.resumeId, fields |-> fields,
                            before |-> call.store.currentResume]]

NextChat ==
    \/ OpenEditor
    \/ NavigateHome
    \/ LoadReturns
    \/ SetDraggedNode
    \/ HandleSend
    \/ ChatReturns

SpecChat == InitChat /\ [][NextChat]_vars

\* C30: a chat response is applied only to the resume for which the message
\* was sent: no field of the current resume holds the content of another
\* resume, a response that arrives when another resume is current changes
\* nothing of it, and at most one chat request is in flight at a time.
C30_ResponseForItsResume ==
    call.fn = "chat" =>
        /\ call.store.currentResume # Null =>
              \A field \in ResumeFields :
                  call.store.currentResume[field] = call.store.currentResume.id
        /\ (ret.applied # Null /\ ret.applied.before # Null
               /\ ret.applied.before.id # ret.applied.sentFor) =>
              ret.applied.fields = {}
        /\ Len(call.chats) <= 1

====
